---------------------------- MODULE Spec2Model ----------------------------
(***************************************************************************)
(* Model of the rtsp-types message layer: the header map and header names, *)
(* the request/response builders, the wire serializer, the streaming wire  *)
(* parser and the Transport typed header.  Byte strings are sequences of   *)
(* byte values 0..255; a Rust Option is a sequence of length 0 or 1.       *)
(***************************************************************************)
EXTENDS Integers, Sequences, FiniteSets, TLC

None == <<>>
Some(x) == <<x>>

\* the element of a one-element set; { e : r \in {x} } names the result x as
\* r in e, so that The of it is e with x worked out once
The(S) == CHOOSE v \in S : TRUE

MinOf(S) == CHOOSE x \in S : \A y \in S : x <= y

\* s.starts_with(p) for the slice of b that begins at position i (1-based)
StartsWithAt(b, i, p) ==
    /\ i + Len(p) - 1 <= Len(b)
    /\ \A k \in 1..Len(p) : b[i + k - 1] = p[k]

\* the slice b[i..] (i is 1-based, i = Len(b) + 1 gives the empty slice)
From(b, i) == SubSeq(b, i, Len(b))

CRLF == <<13, 10>>

IsDigit(c) == c \in 48..57
IsAlpha(c) == c \in 65..90 \/ c \in 97..122
IsAlphanumeric(c) == IsAlpha(c) \/ IsDigit(c)
\* nom::character::is_space: space or horizontal tab
IsSpace(c) == c \in {32, 9}
\* "!#$%&'*+-.^_`|~"
IsTokenChar(c) == IsAlphanumeric(c) \/ c \in {33, 35, 36, 37, 38, 39, 42, 43, 45, 46, 94, 95, 96, 124, 126}
IsVchar(c) == c > 32 /\ c <= 126
\* "$-_.+!*'()"
IsRtspUnreservedChar(c) == IsAlphanumeric(c) \/ c \in {36, 45, 95, 46, 43, 33, 42, 39, 40, 41}

\* str::from_utf8: the well-formed UTF-8 byte sequences
RECURSIVE Utf8ValidFrom(_, _)
Utf8ValidFrom(s, k) ==
    IF k > Len(s) THEN TRUE
    ELSE LET c == s[k]
             Cont(j, lo, hi) == j <= Len(s) /\ s[j] >= lo /\ s[j] <= hi
         IN  IF c < 128 THEN Utf8ValidFrom(s, k + 1)
             ELSE IF c \in 194..223 THEN Cont(k + 1, 128, 191) /\ Utf8ValidFrom(s, k + 2)
             ELSE IF c \in 224..239
                  THEN /\ Cont(k + 1, IF c = 224 THEN 160 ELSE 128, IF c = 237 THEN 159 ELSE 191)
                       /\ Cont(k + 2, 128, 191)
                       /\ Utf8ValidFrom(s, k + 3)
             ELSE IF c \in 240..244
                  THEN /\ Cont(k + 1, IF c = 240 THEN 144 ELSE 128, IF c = 244 THEN 143 ELSE 191)
                       /\ Cont(k + 2, 128, 191)
                       /\ Cont(k + 3, 128, 191)
                       /\ Utf8ValidFrom(s, k + 4)
             ELSE FALSE

Utf8Valid(s) == Utf8ValidFrom(s, 1)

\* format!("{}", n) for an unsigned integer
RECURSIVE DecimalBytes(_)
DecimalBytes(n) ==
    IF n < 10 THEN <<48 + n>> ELSE Append(DecimalBytes(n \div 10), 48 + (n % 10))

RECURSIVE DigitsValue(_)
DigitsValue(s) ==
    IF s = <<>> THEN 0 ELSE 10 * DigitsValue(SubSeq(s, 1, Len(s) - 1)) + (s[Len(s)] - 48)

(***************************************************************************)
(* HeaderName: comparison, equality and hashing (headers/types.rs)         *)
(***************************************************************************)
\* u8::make_ascii_lowercase
ToAsciiLowercase(c) == IF c \in 65..90 THEN c + 32 ELSE c
\* u8::to_ascii_uppercase
ToAsciiUppercase(c) == IF c \in 97..122 THEN c - 32 ELSE c

LowerStr(s) == [k \in 1..Len(s) |-> ToAsciiLowercase(s[k])]
UpperStr(s) == [k \in 1..Len(s) |-> ToAsciiUppercase(s[k])]

Ordering(x, y) == IF x < y THEN "Less" ELSE IF x > y THEN "Greater" ELSE "Equal"

\* impl PartialEq<str> for HeaderName / impl PartialEq for HeaderName
HeaderNameEq(a, b) ==
    /\ Len(a) = Len(b)
    /\ \A k \in 1..Len(a) : ToAsciiLowercase(a[k]) = ToAsciiLowercase(b[k])

\* the ordering without make_ascii_lowercase
HeaderNameCmpExact(a, b) ==
    LET len == IF Len(a) <= Len(b) THEN Len(a) ELSE Len(b)
        s == SubSeq(a, 1, len)
        o == SubSeq(b, 1, len)
        D == {k \in 1..len : s[k] # o[k]}
    IN  IF D # {}
        THEN Ordering(s[MinOf(D)], o[MinOf(D)])
        ELSE Ordering(Len(s), Len(o))

\* impl Ord for HeaderName: both slices are cut to the common length, the
\* folded bytes are compared pairwise, and the lengths compared at the end
\* are those of the two cut slices
HeaderNameCmp(a, b) ==
    LET len == IF Len(a) <= Len(b) THEN Len(a) ELSE Len(b)
        s == SubSeq(a, 1, len)
        o == SubSeq(b, 1, len)
        D == {k \in 1..len : ToAsciiLowercase(s[k]) # ToAsciiLowercase(o[k])}
    IN  IF D # {}
        THEN Ordering(ToAsciiLowercase(s[MinOf(D)]), ToAsciiLowercase(o[MinOf(D)]))
        ELSE Ordering(Len(s), Len(o))

\* impl Hash for HeaderName: the bytes fed to the hasher, in order
HeaderNameHash(a) == [k \in 1..Len(a) |-> a[k]]

(***************************************************************************)
(* Headers: a BTreeMap<HeaderName, HeaderValue>, kept as the sequence of   *)
(* its entries in key order.  A map of at most 11 entries is one B-tree    *)
(* leaf, which is searched linearly with Ord::cmp.                         *)
(***************************************************************************)
Entry(n, v) == [name |-> n, value |-> v]

\* the search of a leaf: skip the keys the name is Greater than, stop at the
\* first key that is Equal (found) or Less (insertion point)
SearchNode(h, name) ==
    LET S == {i \in 1..Len(h) : HeaderNameCmp(name, h[i].name) # "Greater"}
    IN  IF S = {}
        THEN [found |-> FALSE, idx |-> Len(h) + 1]
        ELSE [found |-> HeaderNameCmp(name, h[MinOf(S)].name) = "Equal", idx |-> MinOf(S)]

InsertAt(h, i, e) == SubSeq(h, 1, i - 1) \o <<e>> \o SubSeq(h, i, Len(h))
RemoveAt(h, i) == SubSeq(h, 1, i - 1) \o SubSeq(h, i + 1, Len(h))

HeadersNew == <<>>

\* Headers::insert: BTreeMap::insert keeps the stored key and replaces the value
HeadersInsert(h, name, value) ==
    LET r == SearchNode(h, name)
    IN  IF r.found
        THEN [h EXCEPT ![r.idx].value = value]
        ELSE InsertAt(h, r.idx, Entry(name, value))

\* Headers::append
HeadersAppend(h, name, value) ==
    LET r == SearchNode(h, name)
    IN  IF r.found
        THEN [h EXCEPT ![r.idx].value = h[r.idx].value \o (* ,  *) <<44, 32>> \o value]
        ELSE InsertAt(h, r.idx, Entry(name, value))

\* Headers::remove
HeadersRemove(h, name) ==
    LET r == SearchNode(h, name)
    IN  IF r.found THEN RemoveAt(h, r.idx) ELSE h

\* Headers::get
HeadersGet(h, name) ==
    LET r == SearchNode(h, name)
    IN  IF r.found THEN Some(h[r.idx].value) ELSE None

\* derived PartialEq of Headers: same length, keys equal under HeaderName's
\* eq and values equal, pairwise in iteration order
HeadersEq(h1, h2) ==
    /\ Len(h1) = Len(h2)
    /\ \A i \in 1..Len(h1) :
          /\ HeaderNameEq(h1[i].name, h2[i].name)
          /\ h1[i].value = h2[i].value

CONTENT_LENGTH == (* Content-Length *) <<67, 111, 110, 116, 101, 110, 116, 45, 76, 101, 110, 103, 116, 104>>
TRANSPORT == (* Transport *) <<84, 114, 97, 110, 115, 112, 111, 114, 116>>

(***************************************************************************)
(* Method, Version, StatusCode (message.rs, message_ref.rs, lib.rs)        *)
(***************************************************************************)
\* From<&MethodRef> for &str / serializer::method: the canonical spellings
MethodTable ==
    [Describe |-> (* DESCRIBE *) <<68, 69, 83, 67, 82, 73, 66, 69>>,
     GetParameter |-> (* GET_PARAMETER *) <<71, 69, 84, 95, 80, 65, 82, 65, 77, 69, 84, 69, 82>>,
     Options |-> (* OPTIONS *) <<79, 80, 84, 73, 79, 78, 83>>,
     Pause |-> (* PAUSE *) <<80, 65, 85, 83, 69>>,
     Play |-> (* PLAY *) <<80, 76, 65, 89>>,
     PlayNotify |-> (* PLAY_NOTIFY *) <<80, 76, 65, 89, 95, 78, 79, 84, 73, 70, 89>>,
     Redirect |-> (* REDIRECT *) <<82, 69, 68, 73, 82, 69, 67, 84>>,
     Setup |-> (* SETUP *) <<83, 69, 84, 85, 80>>,
     SetParameter |-> (* SET_PARAMETER *) <<83, 69, 84, 95, 80, 65, 82, 65, 77, 69, 84, 69, 82>>,
     Announce |-> (* ANNOUNCE *) <<65, 78, 78, 79, 85, 78, 67, 69>>,
     Record |-> (* RECORD *) <<82, 69, 67, 79, 82, 68>>,
     Teardown |-> (* TEARDOWN *) <<84, 69, 65, 82, 68, 79, 87, 78>>]

Method(tag) == [tag |-> tag, ext |-> <<>>]
MethodExtension(s) == [tag |-> "Extension", ext |-> s]

\* serializer::method
MethodStr(m) == IF m.tag = "Extension" THEN m.ext ELSE MethodTable[m.tag]

\* impl From<&str> for MethodRef, followed by MethodRef::to_owned
MethodFrom(s) ==
    IF \E t \in DOMAIN MethodTable : MethodTable[t] = s
    THEN Method(CHOOSE t \in DOMAIN MethodTable : MethodTable[t] = s)
    ELSE MethodExtension(s)

\* serializer::rtsp_version
VersionStr(v) == IF v = "V1_0" THEN (* RTSP/1.0 *) <<82, 84, 83, 80, 47, 49, 46, 48>> ELSE (* RTSP/2.0 *) <<82, 84, 83, 80, 47, 50, 46, 48>>

\* impl From<u16> for StatusCode: the numbers with a named code
StatusFromTable ==
    (100 :> "Continue") @@
    (200 :> "Ok") @@
    (301 :> "MovedPermanently") @@
    (302 :> "Found") @@
    (303 :> "SeeOther") @@
    (304 :> "NotModified") @@
    (305 :> "UseProxy") @@
    (400 :> "BadRequest") @@
    (401 :> "Unauthorized") @@
    (402 :> "PaymentRequired") @@
    (403 :> "Forbidden") @@
    (404 :> "NotFound") @@
    (405 :> "MethodNotAllowed") @@
    (406 :> "NotAcceptable") @@
    (407 :> "ProxyAuthenticationRequired") @@
    (408 :> "RequestTimeout") @@
    (410 :> "Gone") @@
    (412 :> "PreconditionFailed") @@
    (413 :> "RequestMessageBodyTooLarge") @@
    (414 :> "RequestURITooLong") @@
    (415 :> "UnsupportedMediaType") @@
    (451 :> "ParameterNotUnderstood") @@
    (452 :> "Reserved") @@
    (453 :> "NotEnoughBandwidth") @@
    (454 :> "SessionNotFound") @@
    (455 :> "MethodNotValidInThisState") @@
    (456 :> "HeaderFieldNotValidForResource") @@
    (457 :> "InvalidRange") @@
    (458 :> "ParameterIsReadOnly") @@
    (459 :> "AggregateOperationNotAllowed") @@
    (460 :> "OnlyAggregateOperationAllowed") @@
    (461 :> "UnsupportedTransport") @@
    (462 :> "DestinationUnreachable") @@
    (463 :> "DestinationProhibited") @@
    (464 :> "DataTransportNotReadyYet") @@
    (465 :> "NotificationReasonUnknown") @@
    (466 :> "KeyManagementError") @@
    (470 :> "ConnectionAuthorizationRequired") @@
    (471 :> "ConnectionCredentialsNotAccepted") @@
    (472 :> "FailureToEstablishSecureConnection") @@
    (500 :> "InternalServerError") @@
    (501 :> "NotImplemented") @@
    (502 :> "BadGateway") @@
    (503 :> "ServiceUnavailable") @@
    (504 :> "GatewayTimeout") @@
    (505 :> "RTSPVersionNotSupported") @@
    (551 :> "OptionNotSupported") @@
    (553 :> "ProxyUnavailable")

\* impl From<StatusCode> for u16: the number of each named code
StatusToTable ==
    [Continue |-> 100,
     Ok |-> 200,
     MovedPermanently |-> 301,
     Found |-> 302,
     SeeOther |-> 303,
     NotModified |-> 304,
     UseProxy |-> 305,
     BadRequest |-> 400,
     Unauthorized |-> 401,
     PaymentRequired |-> 402,
     Forbidden |-> 403,
     NotFound |-> 404,
     MethodNotAllowed |-> 405,
     NotAcceptable |-> 406,
     ProxyAuthenticationRequired |-> 407,
     RequestTimeout |-> 408,
     Gone |-> 410,
     PreconditionFailed |-> 412,
     RequestMessageBodyTooLarge |-> 413,
     RequestURITooLong |-> 414,
     UnsupportedMediaType |-> 415,
     ParameterNotUnderstood |-> 451,
     Reserved |-> 452,
     NotEnoughBandwidth |-> 453,
     SessionNotFound |-> 454,
     MethodNotValidInThisState |-> 455,
     HeaderFieldNotValidForResource |-> 456,
     InvalidRange |-> 456,
     ParameterIsReadOnly |-> 458,
     AggregateOperationNotAllowed |-> 459,
     OnlyAggregateOperationAllowed |-> 460,
     UnsupportedTransport |-> 461,
     DestinationUnreachable |-> 462,
     DestinationProhibited |-> 463,
     DataTransportNotReadyYet |-> 464,
     NotificationReasonUnknown |-> 465,
     KeyManagementError |-> 466,
     ConnectionAuthorizationRequired |-> 470,
     ConnectionCredentialsNotAccepted |-> 471,
     FailureToEstablishSecureConnection |-> 472,
     InternalServerError |-> 500,
     NotImplemented |-> 501,
     BadGateway |-> 502,
     ServiceUnavailable |-> 503,
     GatewayTimeout |-> 504,
     RTSPVersionNotSupported |-> 505,
     OptionNotSupported |-> 551,
     ProxyUnavailable |-> 553]

\* impl Display for StatusCode: the default reason phrase of each named code
StatusDisplayTable ==
    [Continue |-> (* Continue *) <<67, 111, 110, 116, 105, 110, 117, 101>>,
     Ok |-> (* Ok *) <<79, 107>>,
     MovedPermanently |-> (* Moved Permanently *) <<77, 111, 118, 101, 100, 32, 80, 101, 114, 109, 97, 110, 101, 110, 116, 108, 121>>,
     Found |-> (* Found *) <<70, 111, 117, 110, 100>>,
     SeeOther |-> (* See Other *) <<83, 101, 101, 32, 79, 116, 104, 101, 114>>,
     NotModified |-> (* Not Modified *) <<78, 111, 116, 32, 77, 111, 100, 105, 102, 105, 101, 100>>,
     UseProxy |-> (* Use Proxy *) <<85, 115, 101, 32, 80, 114, 111, 120, 121>>,
     BadRequest |-> (* Bad Request *) <<66, 97, 100, 32, 82, 101, 113, 117, 101, 115, 116>>,
     Unauthorized |-> (* Unauthorized *) <<85, 110, 97, 117, 116, 104, 111, 114, 105, 122, 101, 100>>,
     PaymentRequired |-> (* Payment Required *) <<80, 97, 121, 109, 101, 110, 116, 32, 82, 101, 113, 117, 105, 114, 101, 100>>,
     Forbidden |-> (* Forbidden *) <<70, 111, 114, 98, 105, 100, 100, 101, 110>>,
     NotFound |-> (* Not Found *) <<78, 111, 116, 32, 70, 111, 117, 110, 100>>,
     MethodNotAllowed |-> (* Method Not Allowed *) <<77, 101, 116, 104, 111, 100, 32, 78, 111, 116, 32, 65, 108, 108, 111, 119, 101, 100>>,
     NotAcceptable |-> (* Not Acceptable *) <<78, 111, 116, 32, 65, 99, 99, 101, 112, 116, 97, 98, 108, 101>>,
     ProxyAuthenticationRequired |-> (* Proxy Authentication Required *) <<80, 114, 111, 120, 121, 32, 65, 117, 116, 104, 101, 110, 116, 105, 99, 97, 116, 105, 111, 110, 32, 82, 101, 113, 117, 105, 114, 101, 100>>,
     RequestTimeout |-> (* Request Timeout *) <<82, 101, 113, 117, 101, 115, 116, 32, 84, 105, 109, 101, 111, 117, 116>>,
     Gone |-> (* Gone *) <<71, 111, 110, 101>>,
     PreconditionFailed |-> (* Precondition Failed *) <<80, 114, 101, 99, 111, 110, 100, 105, 116, 105, 111, 110, 32, 70, 97, 105, 108, 101, 100>>,
     RequestMessageBodyTooLarge |-> (* Request Message Body Too Large *) <<82, 101, 113, 117, 101, 115, 116, 32, 77, 101, 115, 115, 97, 103, 101, 32, 66, 111, 100, 121, 32, 84, 111, 111, 32, 76, 97, 114, 103, 101>>,
     RequestURITooLong |-> (* Request URI Too Long *) <<82, 101, 113, 117, 101, 115, 116, 32, 85, 82, 73, 32, 84, 111, 111, 32, 76, 111, 110, 103>>,
     UnsupportedMediaType |-> (* Unsupported Media Type *) <<85, 110, 115, 117, 112, 112, 111, 114, 116, 101, 100, 32, 77, 101, 100, 105, 97, 32, 84, 121, 112, 101>>,
     ParameterNotUnderstood |-> (* Parameter Not Understood *) <<80, 97, 114, 97, 109, 101, 116, 101, 114, 32, 78, 111, 116, 32, 85, 110, 100, 101, 114, 115, 116, 111, 111, 100>>,
     Reserved |-> (* Reserved *) <<82, 101, 115, 101, 114, 118, 101, 100>>,
     NotEnoughBandwidth |-> (* Not Enough Bandwidth *) <<78, 111, 116, 32, 69, 110, 111, 117, 103, 104, 32, 66, 97, 110, 100, 119, 105, 100, 116, 104>>,
     SessionNotFound |-> (* Session Not Found *) <<83, 101, 115, 115, 105, 111, 110, 32, 78, 111, 116, 32, 70, 111, 117, 110, 100>>,
     MethodNotValidInThisState |-> (* Method Not Valid In This State *) <<77, 101, 116, 104, 111, 100, 32, 78, 111, 116, 32, 86, 97, 108, 105, 100, 32, 73, 110, 32, 84, 104, 105, 115, 32, 83, 116, 97, 116, 101>>,
     HeaderFieldNotValidForResource |-> (* Header Field Not Valid For Resource *) <<72, 101, 97, 100, 101, 114, 32, 70, 105, 101, 108, 100, 32, 78, 111, 116, 32, 86, 97, 108, 105, 100, 32, 70, 111, 114, 32, 82, 101, 115, 111, 117, 114, 99, 101>>,
     InvalidRange |-> (* Invalid Range *) <<73, 110, 118, 97, 108, 105, 100, 32, 82, 97, 110, 103, 101>>,
     ParameterIsReadOnly |-> (* Parameter Is Read-Only *) <<80, 97, 114, 97, 109, 101, 116, 101, 114, 32, 73, 115, 32, 82, 101, 97, 100, 45, 79, 110, 108, 121>>,
     AggregateOperationNotAllowed |-> (* Aggregate Operation Not Allowed *) <<65, 103, 103, 114, 101, 103, 97, 116, 101, 32, 79, 112, 101, 114, 97, 116, 105, 111, 110, 32, 78, 111, 116, 32, 65, 108, 108, 111, 119, 101, 100>>,
     OnlyAggregateOperationAllowed |-> (* Only Aggregate Operation ALlowed *) <<79, 110, 108, 121, 32, 65, 103, 103, 114, 101, 103, 97, 116, 101, 32, 79, 112, 101, 114, 97, 116, 105, 111, 110, 32, 65, 76, 108, 111, 119, 101, 100>>,
     UnsupportedTransport |-> (* Unsupported Transport *) <<85, 110, 115, 117, 112, 112, 111, 114, 116, 101, 100, 32, 84, 114, 97, 110, 115, 112, 111, 114, 116>>,
     DestinationUnreachable |-> (* Destination Unreachable *) <<68, 101, 115, 116, 105, 110, 97, 116, 105, 111, 110, 32, 85, 110, 114, 101, 97, 99, 104, 97, 98, 108, 101>>,
     DestinationProhibited |-> (* Destination Prohibited *) <<68, 101, 115, 116, 105, 110, 97, 116, 105, 111, 110, 32, 80, 114, 111, 104, 105, 98, 105, 116, 101, 100>>,
     DataTransportNotReadyYet |-> (* Data Transport Not Ready Yet *) <<68, 97, 116, 97, 32, 84, 114, 97, 110, 115, 112, 111, 114, 116, 32, 78, 111, 116, 32, 82, 101, 97, 100, 121, 32, 89, 101, 116>>,
     NotificationReasonUnknown |-> (* Notification Reason Unknown *) <<78, 111, 116, 105, 102, 105, 99, 97, 116, 105, 111, 110, 32, 82, 101, 97, 115, 111, 110, 32, 85, 110, 107, 110, 111, 119, 110>>,
     KeyManagementError |-> (* Key Management Error *) <<75, 101, 121, 32, 77, 97, 110, 97, 103, 101, 109, 101, 110, 116, 32, 69, 114, 114, 111, 114>>,
     ConnectionAuthorizationRequired |-> (* Connection Authorization Required *) <<67, 111, 110, 110, 101, 99, 116, 105, 111, 110, 32, 65, 117, 116, 104, 111, 114, 105, 122, 97, 116, 105, 111, 110, 32, 82, 101, 113, 117, 105, 114, 101, 100>>,
     ConnectionCredentialsNotAccepted |-> (* Connection Credentials Not Accepted *) <<67, 111, 110, 110, 101, 99, 116, 105, 111, 110, 32, 67, 114, 101, 100, 101, 110, 116, 105, 97, 108, 115, 32, 78, 111, 116, 32, 65, 99, 99, 101, 112, 116, 101, 100>>,
     FailureToEstablishSecureConnection |-> (* Failure To Establish Secure Connection *) <<70, 97, 105, 108, 117, 114, 101, 32, 84, 111, 32, 69, 115, 116, 97, 98, 108, 105, 115, 104, 32, 83, 101, 99, 117, 114, 101, 32, 67, 111, 110, 110, 101, 99, 116, 105, 111, 110>>,
     InternalServerError |-> (* Internal Server Error *) <<73, 110, 116, 101, 114, 110, 97, 108, 32, 83, 101, 114, 118, 101, 114, 32, 69, 114, 114, 111, 114>>,
     NotImplemented |-> (* Not Implemented *) <<78, 111, 116, 32, 73, 109, 112, 108, 101, 109, 101, 110, 116, 101, 100>>,
     BadGateway |-> (* Bad Gateway *) <<66, 97, 100, 32, 71, 97, 116, 101, 119, 97, 121>>,
     ServiceUnavailable |-> (* Service Unavailable *) <<83, 101, 114, 118, 105, 99, 101, 32, 85, 110, 97, 118, 97, 105, 108, 97, 98, 108, 101>>,
     GatewayTimeout |-> (* Gateway Timeout *) <<71, 97, 116, 101, 119, 97, 121, 32, 84, 105, 109, 101, 111, 117, 116>>,
     RTSPVersionNotSupported |-> (* RTSP Version Not Supported *) <<82, 84, 83, 80, 32, 86, 101, 114, 115, 105, 111, 110, 32, 78, 111, 116, 32, 83, 117, 112, 112, 111, 114, 116, 101, 100>>,
     OptionNotSupported |-> (* Option Not Supported *) <<79, 112, 116, 105, 111, 110, 32, 78, 111, 116, 32, 83, 117, 112, 112, 111, 114, 116, 101, 100>>,
     ProxyUnavailable |-> (* Proxy Unavailable *) <<80, 114, 111, 120, 121, 32, 85, 110, 97, 118, 97, 105, 108, 97, 98, 108, 101>>]

Status(tag) == [tag |-> tag, n |-> 0]
StatusExtension(v) == [tag |-> "Extension", n |-> v]

StatusFromU16(v) ==
    IF v \in DOMAIN StatusFromTable THEN Status(StatusFromTable[v]) ELSE StatusExtension(v)

StatusToU16(s) == IF s.tag = "Extension" THEN s.n ELSE StatusToTable[s.tag]

StatusDisplay(s) ==
    IF s.tag = "Extension" THEN (* Extension  *) <<69, 120, 116, 101, 110, 115, 105, 111, 110, 32>> \o DecimalBytes(s.n) ELSE StatusDisplayTable[s.tag]

(***************************************************************************)
(* Owned messages and their builders (message.rs).  A Url is kept as the   *)
(* bytes of Url::as_str.                                                   *)
(***************************************************************************)
Request(method, request_uri, version, headers, body) ==
    [kind |-> "Request", method |-> method, request_uri |-> request_uri,
     version |-> version, headers |-> headers, body |-> body]

Response(version, status, reason_phrase, headers, body) ==
    [kind |-> "Response", version |-> version, status |-> status,
     reason_phrase |-> reason_phrase, headers |-> headers, body |-> body]

\* Data::new
Data(channel_id, body) == [kind |-> "Data", channel_id |-> channel_id, body |-> body]

\* PartialEq of Message<Body>: field by field, headers by the derived equality
MessageEq(a, b) ==
    /\ a.kind = b.kind
    /\ a.kind = "Request" =>
          /\ a.method = b.method
          /\ a.request_uri = b.request_uri
          /\ a.version = b.version
          /\ HeadersEq(a.headers, b.headers)
          /\ a.body = b.body
    /\ a.kind = "Response" =>
          /\ a.version = b.version
          /\ a.status = b.status
          /\ a.reason_phrase = b.reason_phrase
          /\ HeadersEq(a.headers, b.headers)
          /\ a.body = b.body
    /\ a.kind = "Data" =>
          /\ a.channel_id = b.channel_id
          /\ a.body = b.body

\* RequestBuilder::new
RequestBuilderNew(method, version) ==
    [kind |-> "RequestBuilder",
     inner |-> Request(method, None, version, HeadersNew, <<>>)]

\* RequestBuilder::request_uri
RequestBuilderRequestUri(b, u) == [b EXCEPT !.inner.request_uri = Some(u)]

\* RequestBuilder::header
RequestBuilderHeader(b, name, value) ==
    [b EXCEPT !.inner.headers = HeadersAppend(b.inner.headers, name, value)]

\* ContentLength::insert_into
ContentLengthInsertInto(h, n) == HeadersInsert(h, CONTENT_LENGTH, DecimalBytes(n))

\* RequestBuilder::typed_header, for the ContentLength typed header
RequestBuilderTypedHeader(b, n) ==
    [b EXCEPT !.inner.headers = ContentLengthInsertInto(b.inner.headers, n)]

\* RequestBuilder::empty
RequestBuilderEmpty(b) == b.inner

\* RequestBuilder::build
RequestBuilderBuild(b, body) ==
    LET headers == IF body # <<>>
                   THEN HeadersInsert(b.inner.headers, CONTENT_LENGTH, DecimalBytes(Len(body)))
                   ELSE b.inner.headers
    IN  Request(b.inner.method, b.inner.request_uri, b.inner.version, headers, body)

\* ResponseBuilder::new
ResponseBuilderNew(version, status) ==
    [kind |-> "ResponseBuilder",
     inner |-> Response(version, status, <<>>, HeadersNew, <<>>),
     reason |-> None]

\* a builder that keeps the phrase of the first call
ResponseBuilderReasonPhraseOnce(b, p) ==
    IF b.reason = None THEN [b EXCEPT !.reason = Some(p)] ELSE b

\* ResponseBuilder::reason_phrase
ResponseBuilderReasonPhrase(b, p) == [b EXCEPT !.reason = Some(p)]

\* ResponseBuilder::header
ResponseBuilderHeader(b, name, value) ==
    [b EXCEPT !.inner.headers = HeadersAppend(b.inner.headers, name, value)]

\* ResponseBuilder::typed_header, for the ContentLength typed header
ResponseBuilderTypedHeader(b, n) ==
    [b EXCEPT !.inner.headers = ContentLengthInsertInto(b.inner.headers, n)]

\* reason_phrase.unwrap_or_else(|| response.status.to_string())
ReasonOrDefault(b) == IF b.reason = None THEN StatusDisplay(b.inner.status) ELSE b.reason[1]

\* ResponseBuilder::empty
ResponseBuilderEmpty(b) == [b.inner EXCEPT !.reason_phrase = ReasonOrDefault(b)]

\* ResponseBuilder::build
ResponseBuilderBuild(b, body) ==
    LET headers == IF body # <<>>
                   THEN HeadersInsert(b.inner.headers, CONTENT_LENGTH, DecimalBytes(Len(body)))
                   ELSE b.inner.headers
    IN  Response(b.inner.version, b.inner.status, ReasonOrDefault(b), headers, body)

\* Request::replace_body and Response::replace_body: the other fields are
\* moved over unchanged
ReplaceBody(m, new_body) ==
    [m EXCEPT !.headers = IF new_body = <<>>
                          THEN HeadersRemove(m.headers, CONTENT_LENGTH)
                          ELSE HeadersInsert(m.headers, CONTENT_LENGTH, DecimalBytes(Len(new_body))),
              !.body = new_body]

\* the closures given to map_body in this model
ApplyBodyFn(f, body) ==
    CASE f = "clear" -> <<>>
      [] f = "double" -> body \o body
      [] f = "push" -> Append(body, 33)

\* Request::map_body and Response::map_body
MapBody(m, f) ==
    LET new_body == ApplyBodyFn(f, m.body)
    IN  [m EXCEPT !.headers = IF new_body = <<>>
                              THEN HeadersRemove(m.headers, CONTENT_LENGTH)
                              ELSE HeadersInsert(m.headers, CONTENT_LENGTH, DecimalBytes(Len(new_body))),
                  !.body = new_body]

(***************************************************************************)
(* Wire serializer (serializer.rs)                                         *)
(***************************************************************************)
\* serializer::headers: each entry as name, ": ", value, CRLF in map order
RECURSIVE WriteHeaders(_)
WriteHeaders(h) ==
    IF h = <<>> THEN <<>>
    ELSE h[1].name \o (* :  *) <<58, 32>> \o h[1].value \o CRLF \o WriteHeaders(Tail(h))

\* a request line that leaves the URI position empty without a request URI
WriteRequestLineNoStar(m) ==
    MethodStr(m.method) \o <<32>>
        \o (IF m.request_uri = None THEN <<>> ELSE m.request_uri[1])
        \o <<32>> \o VersionStr(m.version) \o CRLF

\* serializer::request_line
WriteRequestLine(m) ==
    MethodStr(m.method) \o <<32>>
        \o (IF m.request_uri = None THEN <<42>> ELSE m.request_uri[1])
        \o <<32>> \o VersionStr(m.version) \o CRLF

\* serializer::status_line with serializer::status_code
WriteStatusLine(m) ==
    VersionStr(m.version) \o <<32>> \o DecimalBytes(StatusToU16(m.status))
        \o <<32>> \o m.reason_phrase \o CRLF

\* data.len() as u16, written big-endian
BeU16(n) == <<(n % 65536) \div 256, (n % 65536) % 256>>

\* serializer::message
Write(m) ==
    CASE m.kind = "Request" ->
            WriteRequestLine(m) \o WriteHeaders(m.headers) \o CRLF \o m.body
      [] m.kind = "Response" ->
            WriteStatusLine(m) \o WriteHeaders(m.headers) \o CRLF \o m.body
      [] m.kind = "Data" ->
            <<36, m.channel_id>> \o BeU16(Len(m.body)) \o m.body

\* Message::write_len: the serializer run against a sink, counting the bytes
WriteLen(m) == Len(Write(m))

(***************************************************************************)
(* Wire parser (parser.rs).  A parser reads the input b from position i    *)
(* (1-based) and gives Ok with the next position and a value, or one of    *)
(* nom's Err::Error, Err::Incomplete, Err::Failure.                        *)
(***************************************************************************)
ROk(p, v) == [t |-> "Ok", pos |-> p, v |-> v]
RErr(t) == [t |-> t, pos |-> 0, v |-> <<>>]

\* nom::bytes::streaming::tag
Tag(b, i, tg) ==
    LET avail == Len(b) - i + 1
        m == IF avail < Len(tg) THEN avail ELSE Len(tg)
    IN  IF \E k \in 1..m : b[i + k - 1] # tg[k] THEN RErr("Error")
        ELSE IF avail < Len(tg) THEN RErr("Incomplete")
        ELSE ROk(i + Len(tg), <<>>)

\* nom::character::streaming::char
Char(b, i, c) ==
    IF i > Len(b) THEN RErr("Incomplete")
    ELSE IF b[i] # c THEN RErr("Error")
    ELSE ROk(i + 1, <<>>)

\* nom::bytes::streaming::take_while: needs a byte that ends the run
TakeWhile(b, i, P(_)) ==
    LET S == {j \in i..Len(b) : ~P(b[j])}
    IN  IF S = {} THEN RErr("Incomplete")
        ELSE ROk(MinOf(S), SubSeq(b, i, MinOf(S) - 1))

\* take that hands out every byte there is, whatever the count
take_rest(b, i, n) ==
    ROk(Len(b) + 1, SubSeq(b, i, Len(b)))

\* nom::bytes::streaming::take
Take(b, i, n) ==
    IF Len(b) - i + 1 < n THEN RErr("Incomplete")
    ELSE ROk(i + n, SubSeq(b, i, i + n - 1))

\* parser::token
token(b, i) == TakeWhile(b, i, IsTokenChar)

\* parser::sp
sp(b, i) == Char(b, i, 32)

\* parser::crlf
crlf(b, i) == Tag(b, i, CRLF)

\* parser::vchar_1
vchar_1(b, i) == TakeWhile(b, i, IsVchar)

\* parser::rtsp_version
rtsp_version(b, i) ==
    The({ IF r1.t # "Ok" THEN r1
          ELSE IF r1.pos > Len(b) THEN RErr("Incomplete")
          ELSE IF b[r1.pos] \notin {49, 50} THEN RErr("Error")
          ELSE The({ IF r3.t # "Ok" THEN r3
                     ELSE ROk(r3.pos, IF b[r1.pos] = 50 THEN "V2_0" ELSE "V1_0")
                     : r3 \in {Tag(b, r1.pos + 1, (* .0 *) <<46, 48>>)} })
          : r1 \in {Tag(b, i, (* RTSP/ *) <<82, 84, 83, 80, 47>>)} })

\* the alternative of parser::request_line: '*' gives None, otherwise a run
\* of VCHAR gives Some
request_uri(b, i) ==
    The({ IF star.t = "Ok" THEN ROk(star.pos, None)
          ELSE IF star.t # "Error" THEN star
          ELSE The({ IF r.t # "Ok" THEN r ELSE ROk(r.pos, Some(r.v)) : r \in {vchar_1(b, i)} })
          : star \in {Char(b, i, 42)} })

\* parser::request_line
request_line(b, i) ==
    The({ IF r1.t # "Ok" THEN r1 ELSE
     The({ IF r2.t # "Ok" THEN r2 ELSE
      The({ IF r3.t # "Ok" THEN r3 ELSE
       The({ IF r4.t # "Ok" THEN r4 ELSE
        The({ IF r5.t # "Ok" THEN r5 ELSE
         The({ IF r6.t # "Ok" THEN r6 ELSE
               ROk(r6.pos, [method |-> MethodFrom(r1.v), request_uri |-> r3.v,
                            version |-> r5.v])
         : r6 \in {crlf(b, r5.pos)} })
        : r5 \in {rtsp_version(b, r4.pos)} })
       : r4 \in {sp(b, r3.pos)} })
      : r3 \in {request_uri(b, r2.pos)} })
     : r2 \in {sp(b, r1.pos)} })
    : r1 \in {token(b, i)} })

\* take_while_m_n(3, 3, is_digit), streaming
three_digits(b, i) ==
    LET S == {j \in i..Len(b) : ~IsDigit(b[j])}
        avail == Len(b) - i + 1
    IN  IF S # {}
        THEN (IF MinOf(S) - i >= 3 THEN ROk(i + 3, SubSeq(b, i, i + 2)) ELSE RErr("Error"))
        ELSE (IF avail >= 3 THEN ROk(i + 3, SubSeq(b, i, i + 2)) ELSE RErr("Incomplete"))

\* nom::bytes::streaming::take_until(CRLF)
take_until_crlf(b, i) ==
    LET S == {j \in i..Len(b) : StartsWithAt(b, j, CRLF)}
    IN  IF S = {} THEN RErr("Incomplete")
        ELSE ROk(MinOf(S), SubSeq(b, i, MinOf(S) - 1))

\* parser::status_line
status_line(b, i) ==
    The({ IF r1.t # "Ok" THEN r1 ELSE
     The({ IF r2.t # "Ok" THEN r2 ELSE
      The({ IF r3.t # "Ok" THEN r3 ELSE
       The({ IF r4.t # "Ok" THEN r4 ELSE
        The({ IF r5.t # "Ok" THEN r5 ELSE
              IF ~Utf8Valid(r5.v) THEN RErr("Error") ELSE
         The({ IF r6.t # "Ok" THEN r6 ELSE
               ROk(r6.pos, [version |-> r1.v, status |-> StatusFromU16(DigitsValue(r3.v)),
                            reason_phrase |-> r5.v])
         : r6 \in {crlf(b, r5.pos)} })
        : r5 \in {take_until_crlf(b, r4.pos)} })
       : r4 \in {sp(b, r3.pos)} })
      : r3 \in {three_digits(b, r2.pos)} })
     : r2 \in {sp(b, r1.pos)} })
    : r1 \in {rtsp_version(b, i)} })

\* the loop of parser::header_value from position o: the position of the
\* CRLF that ends the value, or 0 when the input ends first
RECURSIVE header_value_end(_, _)
header_value_end(b, o) ==
    IF o > Len(b) THEN 0
    ELSE IF Len(b) - o + 1 >= 3 /\ StartsWithAt(b, o, CRLF) /\ b[o + 2] \in {32, 9}
    THEN LET S == {j \in (o + 3)..Len(b) : b[j] \notin {32, 9}}
         IN  IF S = {} THEN 0 ELSE header_value_end(b, MinOf(S))
    ELSE IF ~StartsWithAt(b, o, CRLF) THEN header_value_end(b, o + 1)
    ELSE o

\* parser::header_value
header_value(b, i) ==
    The({ IF e = 0 THEN RErr("Incomplete") ELSE ROk(e, SubSeq(b, i, e - 1))
          : e \in {header_value_end(b, i)} })

\* message_header taking the value bytes as they are, without str::from_utf8
message_header_unchecked(b, i) ==
    The({ IF r1.t # "Ok" THEN r1 ELSE
     The({ IF r2.t # "Ok" THEN r2 ELSE
      The({ IF r3.t = "Incomplete" THEN r3 ELSE
       The({ IF r4.t # "Ok" THEN r4 ELSE
        The({ IF r5.t # "Ok" THEN r5 ELSE ROk(r5.pos, Entry(r1.v, r4.v))
        : r5 \in {crlf(b, r4.pos)} })
       : r4 \in {header_value(b, IF r3.t = "Ok" THEN r3.pos ELSE r2.pos)} })
      : r3 \in {TakeWhile(b, r2.pos, IsSpace)} })
     : r2 \in {Char(b, r1.pos, 58)} })
    : r1 \in {token(b, i)} })

\* parser::message_header
message_header(b, i) ==
    The({ IF r1.t # "Ok" THEN r1 ELSE
     The({ IF r2.t # "Ok" THEN r2 ELSE
      The({ IF r3.t = "Incomplete" THEN r3 ELSE
       The({ IF r4.t # "Ok" THEN r4 ELSE
             IF ~Utf8Valid(r4.v) THEN RErr("Error") ELSE
        The({ IF r5.t # "Ok" THEN r5 ELSE ROk(r5.pos, Entry(r1.v, r4.v))
        : r5 \in {crlf(b, r4.pos)} })
       : r4 \in {header_value(b, IF r3.t = "Ok" THEN r3.pos ELSE r2.pos)} })
      : r3 \in {TakeWhile(b, r2.pos, IsSpace)} })
     : r2 \in {Char(b, r1.pos, 58)} })
    : r1 \in {token(b, i)} })

\* many0_tinyvec(message_header): stops at the first Err::Error
RECURSIVE many0_message_header(_, _, _)
many0_message_header(b, i, acc) ==
    The({ IF r.t = "Ok"
          THEN (IF r.pos = i THEN RErr("Error")
                ELSE many0_message_header(b, r.pos, Append(acc, r.v)))
          ELSE IF r.t = "Error" THEN ROk(i, acc)
          ELSE r
          : r \in {message_header(b, i)} })

\* parser::headers
headers(b, i) ==
    The({ IF r.t # "Ok" THEN r ELSE
     The({ IF r2.t # "Ok" THEN r2 ELSE ROk(r2.pos, r.v)
     : r2 \in {crlf(b, r.pos)} })
    : r \in {many0_message_header(b, i, <<>>)} })

\* usize::MAX in decimal, for a usize of 64 bits
UsizeMaxDecimal == (* 18446744073709551615 *) <<49, 56, 52, 52, 54, 55, 52, 52, 48, 55, 51, 55, 48, 57, 53, 53, 49, 54, 49, 53>>

\* str::parse::<usize>: an optional '+' and one or more digits; a number above
\* usize::MAX is an error.  A length of ten digits or more is kept as 10^9:
\* no buffer here is that long, and take only compares the length with the
\* number of bytes at hand.
ParseUsize(s) ==
    LET d == IF s # <<>> /\ s[1] = 43 THEN Tail(s) ELSE s
        nz == {k \in 1..Len(d) : d[k] # 48}
        z == IF nz = {} THEN <<>> ELSE From(d, MinOf(nz))
        over == \/ Len(z) > Len(UsizeMaxDecimal)
                \/ /\ Len(z) = Len(UsizeMaxDecimal)
                   /\ \E k \in 1..Len(z) :
                         /\ z[k] > UsizeMaxDecimal[k]
                         /\ \A j \in 1..(k - 1) : z[j] = UsizeMaxDecimal[j]
    IN  IF d = <<>> \/ \E k \in 1..Len(d) : ~IsDigit(d[k]) THEN None
        ELSE IF over THEN None
        ELSE IF Len(z) > 9 THEN Some(1000000000)
        ELSE Some(DigitsValue(d))

\* content_length taking a value that does not parse as no body at all
content_length_lenient(hs) ==
    LET S == {k \in 1..Len(hs) : UpperStr(hs[k].name) = UpperStr(CONTENT_LENGTH)}
    IN  IF S = {} THEN ROk(0, 0)
        ELSE LET n == ParseUsize(hs[MinOf(S)].value)
             IN  IF n = None THEN ROk(0, 0) ELSE ROk(0, n[1])

\* parser::content_length: the first header whose upper-cased name is
\* CONTENT-LENGTH decides; a value that does not parse is Err::Failure
content_length(hs) ==
    LET S == {k \in 1..Len(hs) : UpperStr(hs[k].name) = (* CONTENT-LENGTH *) <<67, 79, 78, 84, 69, 78, 84, 45, 76, 69, 78, 71, 84, 72>>}
    IN  IF S = {} THEN ROk(0, 0)
        ELSE LET n == ParseUsize(hs[MinOf(S)].value)
             IN  IF n = None THEN RErr("Failure") ELSE ROk(0, n[1])

\* parser::request
request(b, i) ==
    The({ IF r1.t # "Ok" THEN r1 ELSE
     The({ IF r2.t # "Ok" THEN r2 ELSE
      The({ IF r3.t # "Ok" THEN r3 ELSE
       The({ IF r4.t # "Ok" THEN r4 ELSE
             ROk(r4.pos, Request(r1.v.method, r1.v.request_uri, r1.v.version, r2.v, r4.v))
       : r4 \in {Take(b, r2.pos, r3.v)} })
      : r3 \in {content_length(r2.v)} })
     : r2 \in {headers(b, r1.pos)} })
    : r1 \in {request_line(b, i)} })

\* parser::response
response(b, i) ==
    The({ IF r1.t # "Ok" THEN r1 ELSE
     The({ IF r2.t # "Ok" THEN r2 ELSE
      The({ IF r3.t # "Ok" THEN r3 ELSE
       The({ IF r4.t # "Ok" THEN r4 ELSE
             ROk(r4.pos, Response(r1.v.version, r1.v.status, r1.v.reason_phrase, r2.v, r4.v))
       : r4 \in {Take(b, r2.pos, r3.v)} })
      : r3 \in {content_length(r2.v)} })
     : r2 \in {headers(b, r1.pos)} })
    : r1 \in {status_line(b, i)} })

\* parser::data with the length read low byte first
data_little_endian(b, i) ==
    The({ IF r1.t # "Ok" THEN r1 ELSE
     The({ IF r2.t # "Ok" THEN r2 ELSE
      The({ IF r3.t # "Ok" THEN r3 ELSE
       The({ IF r4.t # "Ok" THEN r4 ELSE ROk(r4.pos, Data(r2.v[1], r4.v))
       : r4 \in {Take(b, r3.pos, r3.v[2] * 256 + r3.v[1])} })
      : r3 \in {Take(b, r2.pos, 2)} })
     : r2 \in {Take(b, r1.pos, 1)} })
    : r1 \in {Char(b, i, 36)} })

\* parser::data
data(b, i) ==
    The({ IF r1.t # "Ok" THEN r1 ELSE
     The({ IF r2.t # "Ok" THEN r2 ELSE
      The({ IF r3.t # "Ok" THEN r3 ELSE
       The({ IF r4.t # "Ok" THEN r4 ELSE ROk(r4.pos, Data(r2.v[1], r4.v))
       : r4 \in {Take(b, r3.pos, r3.v[1] * 256 + r3.v[2])} })
      : r3 \in {Take(b, r2.pos, 2)} })
     : r2 \in {Take(b, r1.pos, 1)} })
    : r1 \in {Char(b, i, 36)} })

\* fold_many0(crlf, ...): the leading CRLF pairs
RECURSIVE skip_crlf(_, _)
skip_crlf(b, i) ==
    The({ IF r.t = "Ok" THEN skip_crlf(b, r.pos)
          ELSE IF r.t = "Error" THEN ROk(i, <<>>)
          ELSE r
          : r \in {crlf(b, i)} })

\* parser::message: alt tries the next parser only after Err::Error
message(b) ==
    The({ IF r0.t # "Ok" THEN r0 ELSE
     The({ IF d.t # "Error" THEN d ELSE
      The({ IF q.t # "Error" THEN q ELSE response(b, r0.pos)
      : q \in {request(b, r0.pos)} })
     : d \in {data(b, r0.pos)} })
    : r0 \in {skip_crlf(b, 1)} })

(***************************************************************************)
(* Borrowed to owned (message_ref.rs, headers/types.rs)                    *)
(***************************************************************************)
PErr(t) == [t |-> t, msg |-> <<>>, consumed |-> 0]
POk(m, n) == [t |-> "Ok", msg |-> m, consumed |-> n]

\* a parse that reports the whole buffer as consumed
MessageRefParseWhole(buf) ==
    The({ IF r.t = "Ok" THEN POk(r.v, Len(buf))
          ELSE IF r.t = "Incomplete" THEN PErr("Incomplete")
          ELSE PErr("Error")
          : r \in {message(buf)} })

\* MessageRef::parse
MessageRefParse(buf) ==
    The({ IF r.t = "Ok" THEN POk(r.v, Len(buf) - Len(From(buf, r.pos)))
          ELSE IF r.t = "Incomplete" THEN PErr("Incomplete")
          ELSE PErr("Error")
          : r \in {message(buf)} })

\* the value loop of Headers::from_headers_ref: a CRLF and the spaces and
\* tabs after it become one space, or nothing when no other byte follows
RECURSIVE CollapseValue(_)
CollapseValue(raw) ==
    IF raw = <<>> THEN <<>>
    ELSE IF StartsWithAt(raw, 1, CRLF)
    THEN LET rest == From(raw, 3)
             S == {j \in 1..Len(rest) : rest[j] \notin {32, 9}}
         IN  IF S = {} THEN <<>> ELSE <<32>> \o CollapseValue(From(rest, MinOf(S)))
    ELSE <<raw[1]>> \o CollapseValue(Tail(raw))

\* the two expect() calls of Headers::from_headers_ref: the name must be
\* ASCII and the collapsed value must be UTF-8, otherwise the call panics
FromHeadersRefPanics(hs) ==
    \E k \in 1..Len(hs) :
        \/ \E j \in 1..Len(hs[k].name) : hs[k].name[j] >= 128
        \/ ~Utf8Valid(CollapseValue(hs[k].value))

\* Headers::from_headers_ref
RECURSIVE FromHeadersRef(_, _)
FromHeadersRef(hs, owned) ==
    IF hs = <<>> THEN owned
    ELSE FromHeadersRef(Tail(hs), HeadersAppend(owned, hs[1].name, CollapseValue(hs[1].value)))

\* Url::parse of the url crate, as far as this model needs it: a string with
\* a scheme (a letter, then letters, digits, '+', '-', '.', up to a ':')
\* parses, with the scheme in lower case; any other string is an error
UrlParse(s) ==
    LET S == {j \in 1..Len(s) : s[j] = 58}
        IsSchemeChar(c) == IsAlphanumeric(c) \/ c \in {43, 45, 46}
    IN  IF S = {} \/ s = <<>> THEN None
        ELSE LET c == MinOf(S)
             IN  IF c > 1 /\ IsAlpha(s[1]) /\ \A k \in 1..(c - 1) : IsSchemeChar(s[k])
                 THEN Some(LowerStr(SubSeq(s, 1, c - 1)) \o From(s, c))
                 ELSE None

\* MessageRef::to_owned
ToOwned(r) ==
    CASE r.kind = "Request" ->
            IF r.request_uri # None /\ UrlParse(r.request_uri[1]) = None THEN RErr("Error")
            ELSE IF FromHeadersRefPanics(r.headers) THEN RErr("Panic")
            ELSE ROk(0, Request(r.method,
                                IF r.request_uri = None THEN None ELSE UrlParse(r.request_uri[1]),
                                r.version, FromHeadersRef(r.headers, HeadersNew), r.body))
      [] r.kind = "Response" ->
            IF FromHeadersRefPanics(r.headers) THEN RErr("Panic")
            ELSE ROk(0, Response(r.version, r.status, r.reason_phrase,
                                 FromHeadersRef(r.headers, HeadersNew), r.body))
      [] r.kind = "Data" -> ROk(0, r)

\* Message::parse
MessageParse(buf) ==
    The({ IF r.t # "Ok" THEN r
          ELSE The({ IF o.t # "Ok" THEN PErr(o.t) ELSE POk(o.v, r.consumed)
                     : o \in {ToOwned(r.msg)} })
          : r \in {MessageRefParse(buf)} })

(***************************************************************************)
(* State: a caller that drives the builders, the body helpers, the         *)
(* serializer and the parser.                                              *)
(***************************************************************************)
VARIABLES
    pc,       \* where the caller is
    builder,  \* the RequestBuilder / ResponseBuilder in use
    calls,    \* number of header calls made on the builder
    msg,      \* the owned message
    prev,     \* the owned message before the last body helper
    wire,     \* bytes written by the serializer, or the input buffer
    cut,      \* number of bytes of wire handed to Message::parse
    res,      \* result of the last operation
    sent,     \* messages serialised onto the stream, in order
    got,      \* messages parsed from the stream, in order
    offset,   \* bytes of the stream consumed so far
    input     \* inputs of the operation under test

vars == <<pc, builder, calls, msg, prev, wire, cut, res, sent, got, offset, input>>

\* bounds
MaxHeaderCalls == 2
MaxBodyLen == 2
MaxStream == 2

RECURSIVE SeqsUpTo(_, _)
SeqsUpTo(S, n) ==
    IF n = 0 THEN {<<>>}
    ELSE LET R == SeqsUpTo(S, n - 1)
         IN  R \cup {Append(s, x) : s \in {r \in R : Len(r) = n - 1}, x \in S}

\* the arguments the caller picks from
Methods == {Method("Options"), MethodExtension((* FOO *) <<70, 79, 79>>)}
Versions == {"V1_0", "V2_0"}
Statuses == {Status("Ok"), Status("InvalidRange")}
Uris == {(* rtsp://h/a *) <<114, 116, 115, 112, 58, 47, 47, 104, 47, 97>>}
ReasonPhrases == {(* Fine *) <<70, 105, 110, 101>>}
HeaderNames == {<<67>>, CONTENT_LENGTH, (* content-length *) <<99, 111, 110, 116, 101, 110, 116, 45, 108, 101, 110, 103, 116, 104>>, (* CSeq *) <<67, 83, 101, 113>>}
HeaderValues == {<<49>>, <<55>>}
TypedLengths == {7}
Bodies == SeqsUpTo({97}, MaxBodyLen)
BodyFns == {"clear", "double", "push"}
Channels == {0, 65}

Universe ==
    [methods |-> Methods, versions |-> Versions, statuses |-> Statuses, uris |-> Uris,
     reasons |-> ReasonPhrases, names |-> HeaderNames, values |-> HeaderValues,
     lengths |-> TypedLengths, bodies |-> Bodies, channels |-> Channels,
     maxcalls |-> MaxHeaderCalls]

\* the smaller choice of arguments used when several messages share a stream
StreamUniverse ==
    [methods |-> {Method("Options")}, versions |-> {"V1_0"}, statuses |-> Statuses,
     uris |-> Uris, reasons |-> ReasonPhrases, names |-> {(* CSeq *) <<67, 83, 101, 113>>}, values |-> {<<49>>},
     lengths |-> TypedLengths, bodies |-> SeqsUpTo({97}, MaxBodyLen - 1),
     channels |-> {0}, maxcalls |-> MaxHeaderCalls - 1]

NoBuilder == [kind |-> "None"]
NoMessage == [kind |-> "None"]
NoResult == [t |-> "None"]

InitCommon ==
    /\ builder = NoBuilder
    /\ calls = 0
    /\ msg = NoMessage
    /\ prev = NoMessage
    /\ wire = <<>>
    /\ cut = 0
    /\ res = NoResult
    /\ sent = <<>>
    /\ got = <<>>
    /\ offset = 0
    /\ input = <<>>

Init == pc = "start" /\ InitCommon

\* Request::builder(method, version)
DoRequestBuilder(U) ==
    /\ pc = "start"
    /\ \E m \in U.methods, v \in U.versions : builder' = RequestBuilderNew(m, v)
    /\ pc' = "builder"
    /\ calls' = 0
    /\ UNCHANGED <<msg, prev, wire, cut, res, sent, got, offset, input>>

\* Response::builder(version, status)
DoResponseBuilder(U) ==
    /\ pc = "start"
    /\ \E v \in U.versions, s \in U.statuses : builder' = ResponseBuilderNew(v, s)
    /\ pc' = "builder"
    /\ calls' = 0
    /\ UNCHANGED <<msg, prev, wire, cut, res, sent, got, offset, input>>

\* .request_uri(url)
DoRequestUri(U) ==
    /\ pc = "builder" /\ builder.kind = "RequestBuilder"
    /\ builder.inner.request_uri = None
    /\ \E u \in U.uris : builder' = RequestBuilderRequestUri(builder, u)
    /\ UNCHANGED <<pc, calls, msg, prev, wire, cut, res, sent, got, offset, input>>

\* .reason_phrase(p)
DoReasonPhrase(U) ==
    /\ pc = "builder" /\ builder.kind = "ResponseBuilder"
    /\ builder.reason = None
    /\ \E p \in U.reasons : builder' = ResponseBuilderReasonPhrase(builder, p)
    /\ UNCHANGED <<pc, calls, msg, prev, wire, cut, res, sent, got, offset, input>>

\* .header(name, value)
DoHeader(U) ==
    /\ pc = "builder"
    /\ calls < U.maxcalls
    /\ \E n \in U.names, v \in U.values :
          builder' = IF builder.kind = "RequestBuilder"
                     THEN RequestBuilderHeader(builder, n, v)
                     ELSE ResponseBuilderHeader(builder, n, v)
    /\ calls' = calls + 1
    /\ UNCHANGED <<pc, msg, prev, wire, cut, res, sent, got, offset, input>>

\* .typed_header(&ContentLength::from(n))
DoTypedHeader(U) ==
    /\ pc = "builder"
    /\ calls < U.maxcalls
    /\ \E n \in U.lengths :
          builder' = IF builder.kind = "RequestBuilder"
                     THEN RequestBuilderTypedHeader(builder, n)
                     ELSE ResponseBuilderTypedHeader(builder, n)
    /\ calls' = calls + 1
    /\ UNCHANGED <<pc, msg, prev, wire, cut, res, sent, got, offset, input>>

\* .empty()
DoEmpty ==
    /\ pc = "builder"
    /\ msg' = IF builder.kind = "RequestBuilder"
              THEN RequestBuilderEmpty(builder)
              ELSE ResponseBuilderEmpty(builder)
    /\ pc' = "built"
    /\ res' = [t |-> "empty"]
    /\ UNCHANGED <<builder, calls, prev, wire, cut, sent, got, offset, input>>

\* .build(body)
DoBuild(U) ==
    /\ pc = "builder"
    /\ \E body \in U.bodies :
          msg' = IF builder.kind = "RequestBuilder"
                 THEN RequestBuilderBuild(builder, body)
                 ELSE ResponseBuilderBuild(builder, body)
    /\ pc' = "built"
    /\ res' = [t |-> "build"]
    /\ UNCHANGED <<builder, calls, prev, wire, cut, sent, got, offset, input>>

\* Data::new(channel_id, body)
DoDataNew(U) ==
    /\ pc = "start"
    /\ \E c \in U.channels, body \in U.bodies : msg' = Data(c, body)
    /\ pc' = "built"
    /\ res' = [t |-> "new"]
    /\ UNCHANGED <<builder, calls, prev, wire, cut, sent, got, offset, input>>

\* message.replace_body(new_body) on a request or response
DoReplaceBody ==
    /\ pc = "built" /\ msg.kind \in {"Request", "Response"}
    /\ \E b \in Bodies : msg' = ReplaceBody(msg, b)
    /\ prev' = msg
    /\ pc' = "modified"
    /\ res' = [t |-> "replace_body"]
    /\ UNCHANGED <<builder, calls, wire, cut, sent, got, offset, input>>

\* message.map_body(f) on a request or response
DoMapBody ==
    /\ pc = "built" /\ msg.kind \in {"Request", "Response"}
    /\ \E f \in BodyFns : msg' = MapBody(msg, f)
    /\ prev' = msg
    /\ pc' = "modified"
    /\ res' = [t |-> "map_body"]
    /\ UNCHANGED <<builder, calls, wire, cut, sent, got, offset, input>>

BuilderNext(U) ==
    \/ DoRequestBuilder(U)
    \/ DoResponseBuilder(U)
    \/ DoRequestUri(U)
    \/ DoReasonPhrase(U)
    \/ DoHeader(U)
    \/ DoTypedHeader(U)
    \/ DoEmpty
    \/ DoBuild(U)
    \/ DoDataNew(U)

Next ==
    \/ BuilderNext(Universe)
    \/ DoReplaceBody
    \/ DoMapBody

Spec == Init /\ [][Next]_vars

\* message.write(&mut wire)
DoWrite ==
    /\ pc = "built"
    /\ wire' = Write(msg)
    /\ cut' = Len(Write(msg))
    /\ pc' = "written"
    /\ UNCHANGED <<builder, calls, msg, prev, res, sent, got, offset, input>>

\* Message::parse(&wire)
DoParse ==
    /\ pc = "written"
    /\ res' = MessageParse(wire)
    /\ pc' = "parsed"
    /\ UNCHANGED <<builder, calls, msg, prev, wire, cut, sent, got, offset, input>>

\* Message::parse(&wire[..k]) for a k short of the whole message
DoParseTruncated ==
    /\ pc = "written"
    /\ \E k \in 0..(Len(wire) - 1) :
          /\ cut' = k
          /\ res' = MessageParse(SubSeq(wire, 1, k))
    /\ pc' = "parsed"
    /\ UNCHANGED <<builder, calls, msg, prev, wire, sent, got, offset, input>>

NextWire ==
    \/ BuilderNext(Universe)
    \/ DoWrite
    \/ DoParse
    \/ DoParseTruncated

SpecWire == Init /\ [][NextWire]_vars

\* message.write(&mut stream): the next message goes onto the stream
DoSend ==
    /\ pc = "built"
    /\ Len(sent) < MaxStream
    /\ wire' = wire \o Write(msg)
    /\ sent' = Append(sent, msg)
    /\ pc' = "start"
    /\ UNCHANGED <<builder, calls, msg, prev, cut, res, got, offset, input>>

\* Message::parse(&stream[offset..]), then advance by consumed
DoRecv ==
    /\ pc \in {"start", "recv"}
    /\ sent # <<>>
    /\ Len(got) < Len(sent)
    /\ \E r \in {MessageParse(From(wire, offset + 1))} :
          /\ res' = r
          /\ IF r.t = "Ok"
             THEN got' = Append(got, r.msg) /\ offset' = offset + r.consumed /\ pc' = "recv"
             ELSE got' = got /\ offset' = offset /\ pc' = "stuck"
    /\ UNCHANGED <<builder, calls, msg, prev, wire, cut, sent, input>>

NextStream ==
    \/ BuilderNext(StreamUniverse)
    \/ DoSend
    \/ DoRecv

SpecStream == Init /\ [][NextStream]_vars

(***************************************************************************)
(* Properties of the builders, the body helpers and the wire round trip.   *)
(***************************************************************************)
HasHeaders(m) == m.kind \in {"Request", "Response"}

\* the entries of a header map whose name is not Content-Length
OtherHeaders(h) ==
    {<<h[i].name, h[i].value>> : i \in {j \in 1..Len(h) : ~HeaderNameEq(h[j].name, CONTENT_LENGTH)}}

\* the values stored under a name that is Content-Length in any capitalization
ContentLengthValues(h) ==
    {h[i].value : i \in {j \in 1..Len(h) : HeaderNameEq(h[j].name, CONTENT_LENGTH)}}

\* C8: a message closed with .empty(), or with .build(body) for an empty
\* body, has no Content-Length header, whatever was given to the builder.
C8_EmptyBodyNoContentLength ==
    (pc = "built" /\ HasHeaders(msg) /\ msg.body = <<>>)
        => ContentLengthValues(msg.headers) = {}

C10_BodyHelpersKeepTheRest ==
    pc = "modified"
        => /\ ContentLengthValues(msg.headers) =
                  IF msg.body = <<>> THEN {} ELSE {DecimalBytes(Len(msg.body))}
           /\ OtherHeaders(msg.headers) = OtherHeaders(prev.headers)
           /\ [msg EXCEPT !.headers = <<>>, !.body = <<>>] =
                  [prev EXCEPT !.headers = <<>>, !.body = <<>>]

\* C1: writing an owned message and parsing the bytes written gives back an
\* equal message and consumes exactly write_len() bytes.
C1_RoundTrip ==
    (pc = "parsed" /\ cut = Len(wire))
        => /\ res.t = "Ok"
           /\ MessageEq(res.msg, msg)
           /\ res.consumed = WriteLen(msg)
           /\ res.consumed = Len(wire)

\* C3: parsing any proper prefix of the bytes of a serialised message
\* reports Incomplete.
C3_TruncationIncomplete ==
    (pc = "parsed" /\ cut < Len(wire)) => res.t = "Incomplete"

\* C2: when messages are written back to back onto one stream, parsing at
\* the current offset and advancing by consumed gives the messages back in
\* order and ends exactly at the end of the stream.
C2_StreamFraming ==
    /\ pc # "stuck"
    /\ Len(got) <= Len(sent)
    /\ \A i \in 1..Len(got) : i <= Len(sent) /\ MessageEq(got[i], sent[i])
    /\ (pc = "recv" /\ Len(got) = Len(sent)) => offset = Len(wire)

(***************************************************************************)
(* HeaderName: equality, ordering and hashing of pairs of names.           *)
(***************************************************************************)
MaxNameLen == 2

\* 'A', 'a', 'B', '-'
NameBytes == {65, 97, 66, 45}

NameInputs == SeqsUpTo(NameBytes, MaxNameLen) \ {<<>>}

InitNames ==
    /\ pc = "names"
    /\ InitCommon

\* the caller picks two header names
DoPickNames ==
    /\ pc = "names"
    /\ \E a \in NameInputs, b \in NameInputs : input' = <<a, b>>
    /\ pc' = "picked"
    /\ UNCHANGED <<builder, calls, msg, prev, wire, cut, res, sent, got, offset>>

\* a == b, a.cmp(&b) and the bytes both feed to a hasher
DoCompareNames ==
    /\ pc = "picked"
    /\ res' = [t |-> "compared",
               eq |-> HeaderNameEq(input[1], input[2]),
               cmp |-> HeaderNameCmp(input[1], input[2]),
               hash1 |-> HeaderNameHash(input[1]),
               hash2 |-> HeaderNameHash(input[2])]
    /\ pc' = "compared"
    /\ UNCHANGED <<builder, calls, msg, prev, wire, cut, sent, got, offset, input>>

\* headers.insert(a, "1") followed by headers.get(&b)
DoLookupName ==
    /\ pc = "picked"
    /\ res' = [t |-> "lookup",
               value |-> HeadersGet(HeadersInsert(HeadersNew, input[1], <<49>>), input[2])]
    /\ pc' = "looked-up"
    /\ UNCHANGED <<builder, calls, msg, prev, wire, cut, sent, got, offset, input>>

NextNames ==
    \/ DoPickNames
    \/ DoCompareNames
    \/ DoLookupName

SpecNames == InitNames /\ [][NextNames]_vars

\* lexicographic order of two byte strings
RECURSIVE LexCmp(_, _)
LexCmp(s, o) ==
    IF s = <<>> /\ o = <<>> THEN "Equal"
    ELSE IF s = <<>> THEN "Less"
    ELSE IF o = <<>> THEN "Greater"
    ELSE IF Head(s) # Head(o) THEN Ordering(Head(s), Head(o))
    ELSE LexCmp(Tail(s), Tail(o))

\* C6: header names are equal, ordered and hashed by their ASCII-case-folded
\* text: names that differ only in case are equal, compare Equal and hash
\* alike, and names that differ otherwise are unequal and compare as their
\* lower-cased texts do.
C6_HeaderNameCaseFolded ==
    pc = "compared"
        => /\ res.eq = (LowerStr(input[1]) = LowerStr(input[2]))
           /\ res.cmp = LexCmp(LowerStr(input[1]), LowerStr(input[2]))
           /\ res.eq => res.hash1 = res.hash2

(***************************************************************************)
(* Message::parse on inputs that do not come from the serializer: bytes    *)
(* fed one at a time, and start lines, header lines, the empty line and    *)
(* trailing bytes put together in order.                                   *)
(***************************************************************************)
MaxRawLen == 4
MaxHeaderLines == 2

\* '$', CR, LF, NUL, 0xFF, 'A'
RawBytes == {36, 13, 10, 0, 255, 65}

StartLines ==
    {[ok |-> TRUE,  bytes |-> <<79, 80, 84, 73, 79, 78, 83, 32, 42, 32, 82, 84, 83, 80, 47, 49, 46, 48, 13, 10>>],
     [ok |-> TRUE,  bytes |-> <<82, 84, 83, 80, 47, 49, 46, 48, 32, 50, 48, 48, 32, 79, 75, 13, 10>>],
     [ok |-> TRUE,  bytes |-> <<13, 10, 79, 80, 84, 73, 79, 78, 83, 32, 42, 32, 82, 84, 83, 80, 47, 49, 46, 48, 13, 10>>],
     [ok |-> FALSE, bytes |-> <<82, 84, 83, 80, 47, 49, 46, 48, 32, 50, 48, 48, 32, 79, 75, 10>>],
     [ok |-> FALSE, bytes |-> <<79, 80, 84, 73, 79, 78, 83, 32, 110, 111, 117, 114, 108, 32, 82, 84, 83, 80, 47, 49, 46, 48, 13, 10>>]}

HeaderLines ==
    {Entry(CONTENT_LENGTH, <<49>>),
     Entry((* content-length *) <<99, 111, 110, 116, 101, 110, 116, 45, 108, 101, 110, 103, 116, 104>>, (* bad *) <<98, 97, 100>>),
     Entry(CONTENT_LENGTH, (* +1 *) <<43, 49>>),
     Entry((* CSeq *) <<67, 83, 101, 113>>, <<49, 13, 10, 32, 50>>),
     Entry((* CSeq *) <<67, 83, 101, 113>>, <<195, 169>>),
     Entry((* CSeq *) <<67, 83, 101, 113>>, <<255>>)}

TrailingBytes == {<<97>>, (* ab *) <<97, 98>>, <<255>>}

InitParse ==
    /\ pc = "feed"
    /\ InitCommon

\* one more arbitrary byte at the end of the input
DoFeedByte ==
    /\ pc = "feed"
    /\ \A k \in 1..Len(input) : input[k].kind = "byte"
    /\ Len(input) < MaxRawLen
    /\ \E c \in RawBytes :
          /\ wire' = Append(wire, c)
          /\ input' = Append(input, [kind |-> "byte"])
    /\ UNCHANGED <<pc, builder, calls, msg, prev, cut, res, sent, got, offset>>

\* a request line or status line begins the input
DoFeedStartLine ==
    /\ pc = "feed"
    /\ input = <<>>
    /\ \E l \in StartLines :
          /\ wire' = l.bytes
          /\ input' = <<[kind |-> "start", ok |-> l.ok]>>
    /\ UNCHANGED <<pc, builder, calls, msg, prev, cut, res, sent, got, offset>>

\* a header line "name: value CRLF" follows the start line or a header line
DoFeedHeaderLine ==
    /\ pc = "feed"
    /\ input # <<>>
    /\ input[Len(input)].kind \in {"start", "header"}
    /\ Len(input) <= MaxHeaderLines
    /\ \E h \in HeaderLines :
          /\ wire' = wire \o h.name \o (* :  *) <<58, 32>> \o h.value \o CRLF
          /\ input' = Append(input, [kind |-> "header", name |-> h.name, value |-> h.value])
    /\ UNCHANGED <<pc, builder, calls, msg, prev, cut, res, sent, got, offset>>

\* the empty line ends the header section
DoFeedEmptyLine ==
    /\ pc = "feed"
    /\ input # <<>>
    /\ input[Len(input)].kind \in {"start", "header"}
    /\ wire' = wire \o CRLF
    /\ input' = Append(input, [kind |-> "empty"])
    /\ UNCHANGED <<pc, builder, calls, msg, prev, cut, res, sent, got, offset>>

\* bytes follow the header section
DoFeedTrailing ==
    /\ pc = "feed"
    /\ input # <<>>
    /\ input[Len(input)].kind = "empty"
    /\ \E t \in TrailingBytes :
          /\ wire' = wire \o t
          /\ input' = Append(input, [kind |-> "trailing"])
    /\ UNCHANGED <<pc, builder, calls, msg, prev, cut, res, sent, got, offset>>

\* Message::parse(&input)
DoParseInput ==
    /\ pc = "feed"
    /\ res' = MessageParse(wire)
    /\ cut' = Len(wire)
    /\ pc' = "parsed"
    /\ UNCHANGED <<builder, calls, msg, prev, wire, sent, got, offset, input>>

\* Message::parse(&input[..k])
DoParsePrefix ==
    /\ pc = "feed"
    /\ \E k \in 0..(Len(wire) - 1) :
          /\ cut' = k
          /\ res' = MessageParse(SubSeq(wire, 1, k))
    /\ pc' = "parsed"
    /\ UNCHANGED <<builder, calls, msg, prev, wire, sent, got, offset, input>>

NextParse ==
    \/ DoFeedByte
    \/ DoFeedStartLine
    \/ DoFeedHeaderLine
    \/ DoFeedEmptyLine
    \/ DoFeedTrailing
    \/ DoParseInput
    \/ DoParsePrefix

SpecParse == InitParse /\ [][NextParse]_vars

\* C4: on every input Message::parse returns Ok with 0 < consumed <= the
\* input length, or Incomplete, or Error, and never panics.
C4_ParseTotal ==
    pc = "parsed"
        => /\ res.t \in {"Ok", "Incomplete", "Error"}
           /\ res.t = "Ok" => (0 < res.consumed /\ res.consumed <= cut)

\* the header section held a value that is only UTF-8 over two bytes and a
\* continuation line, and the parse went through to an owned message
C4_Witness ==
    /\ pc = "parsed" /\ res.t = "Ok"
    /\ res.msg.kind = "Request"
    /\ \E k \in 1..Len(input) : input[k].kind = "header" /\ input[k].value = <<195, 169>>
    /\ \E k \in 1..Len(input) : input[k].kind = "header" /\ input[k].value = <<49, 13, 10, 32, 50>>
    /\ res.consumed < cut

\* an optional sign and one or more decimal digits
DecimalInteger(v) ==
    LET d == IF v # <<>> /\ v[1] \in {43, 45} THEN Tail(v) ELSE v
    IN  d # <<>> /\ \A k \in 1..Len(d) : IsDigit(d[k])

IsContentLengthLine(p) == p.kind = "header" /\ HeaderNameEq(p.name, CONTENT_LENGTH)

\* C5 as stated: an input with a Content-Length header whose value is not
\* a decimal integer is answered with Error, never Incomplete.
C5_BadContentLengthAnywhere ==
    (/\ pc = "parsed" /\ cut = Len(wire)
     /\ \E k \in 1..Len(input) : IsContentLengthLine(input[k]) /\ ~DecimalInteger(input[k].value))
        => res.t = "Error"

\* the start line is well formed, header lines follow it and the empty line
\* ends them
HeaderSectionComplete ==
    /\ input # <<>>
    /\ input[1].kind = "start" /\ input[1].ok
    /\ \E e \in 2..Len(input) :
          /\ input[e].kind = "empty"
          /\ \A k \in 2..(e - 1) : input[k].kind = "header" /\ Utf8Valid(input[k].value)

\* C5: an input with a well-formed start line and a complete header section
\* in which the first Content-Length header holds a value that is not a
\* decimal integer is answered with Error, whatever bytes follow.
C5_BadContentLengthIsError ==
    (/\ pc = "parsed" /\ cut = Len(wire)
     /\ HeaderSectionComplete
     /\ \E k \in 1..Len(input) :
           /\ IsContentLengthLine(input[k]) /\ ~DecimalInteger(input[k].value)
           /\ \A j \in 1..(k - 1) : ~IsContentLengthLine(input[j]))
        => res.t = "Error"

C5_Witness ==
    /\ pc = "parsed" /\ cut = Len(wire)
    /\ HeaderSectionComplete
    /\ Len(input) = 4
    /\ IsContentLengthLine(input[2]) /\ input[2].value = (* bad *) <<98, 97, 100>>
    /\ input[4].kind = "trailing"
    /\ res.t = "Error"

(***************************************************************************)
(* The Transport typed header: headers/parser_helpers.rs and               *)
(* headers/transport.rs.  These parsers are nom "complete" parsers; the    *)
(* values of enums built with From<&str> are represented by their text.    *)
(***************************************************************************)
\* nom::character::complete::space0
space0(b, i) ==
    LET S == {j \in i..Len(b) : ~IsSpace(b[j])}
    IN  IF S = {} THEN Len(b) + 1 ELSE MinOf(S)

\* nom::bytes::complete::tag
TagComplete(b, i, tg) ==
    IF StartsWithAt(b, i, tg) THEN ROk(i + Len(tg), tg) ELSE RErr("Error")

\* nom::bytes::complete::take_while
TakeWhileComplete(b, i, P(_)) ==
    LET S == {j \in i..Len(b) : ~P(b[j])}
        e == IF S = {} THEN Len(b) + 1 ELSE MinOf(S)
    IN  ROk(e, SubSeq(b, i, e - 1))

\* parser_helpers::token
helpers_token(b, i) == TakeWhileComplete(b, i, IsTokenChar)

\* parser_helpers::rtsp_unreserved
rtsp_unreserved(b, i) == TakeWhileComplete(b, i, IsRtspUnreservedChar)

\* parser::is_address_list_separator at position o: how much to skip
is_address_list_separator(b, o) ==
    IF ~StartsWithAt(b, o, <<34>>) THEN None
    ELSE The({ IF ~StartsWithAt(b, o1, <<47>>) THEN None
               ELSE The({ IF StartsWithAt(b, o2, <<34>>) THEN Some(o2 - o + 1) ELSE None
                          : o2 \in {space0(b, o1 + 1)} })
               : o1 \in {space0(b, o + 1)} })

\* the loop of parser::quoted_string_or_address_list from position o: the
\* position where it stops, or 0 when it returns Incomplete from the loop
RECURSIVE quoted_scan(_, _)
quoted_scan(b, o) ==
    IF o > Len(b) THEN o
    ELSE IF Len(b) - o + 1 >= 2 /\ b[o] = 92 THEN quoted_scan(b, o + 2)
    ELSE IF b[o] = 92 THEN 0
    ELSE IF b[o] # 34 THEN quoted_scan(b, o + 1)
    ELSE The({ IF skip # None THEN quoted_scan(b, o + skip[1]) ELSE o + 1
               : skip \in {is_address_list_separator(b, o)} })

\* parser::quoted_string_or_address_list
quoted_string_or_address_list(b, i) ==
    IF ~StartsWithAt(b, i, <<34>>) THEN RErr("Error")
    ELSE The({ IF o = 0 THEN RErr("Incomplete")
               ELSE IF b[o - 1] # 34 THEN RErr("Incomplete")
               ELSE ROk(o, SubSeq(b, i, o - 1))
               : o \in {quoted_scan(b, i + 1)} })

\* parser::parameter
parameter(b, i) ==
    IF i > Len(b) THEN RErr("Error")
    ELSE
    The({
     The({
      The({ IF c.t # "Ok" THEN ROk(p1, Entry(n.v, None)) ELSE
       The({
        The({
         The({ IF v.t # "Ok" THEN v
               ELSE IF ~Utf8Valid(v.v) THEN RErr("Error")
               ELSE ROk(space0(b, v.pos), Entry(n.v, Some(v.v)))
         : v \in {IF q.t = "Error" THEN rtsp_unreserved(b, p2) ELSE q} })
        : q \in {quoted_string_or_address_list(b, p2)} })
       : p2 \in {space0(b, c.pos)} })
      : c \in {TagComplete(b, p1, <<61>>)} })
     : p1 \in {space0(b, n.pos)} })
    : n \in {helpers_token(b, space0(b, i))} })

\* lexicographic order of two byte strings: Ord for String
RECURSIVE StringCmp(_, _)
StringCmp(s, o) ==
    IF s = <<>> /\ o = <<>> THEN "Equal"
    ELSE IF s = <<>> THEN "Less"
    ELSE IF o = <<>> THEN "Greater"
    ELSE IF Head(s) # Head(o) THEN Ordering(Head(s), Head(o))
    ELSE StringCmp(Tail(s), Tail(o))

\* BTreeMap<String, Option<String>>::insert on a map kept as the sequence
\* of its entries in key order
ParamsInsert(m, name, value) ==
    The({ IF S = {} THEN Append(m, Entry(name, value))
          ELSE IF m[MinOf(S)].name = name THEN [m EXCEPT ![MinOf(S)] = Entry(name, value)]
          ELSE InsertAt(m, MinOf(S), Entry(name, value))
          : S \in {{k \in 1..Len(m) : StringCmp(name, m[k].name) # "Greater"}} })

\* parser::parameters
RECURSIVE parameters(_, _, _)
parameters(b, i, acc) ==
    The({ IF s.t # "Ok" THEN ROk(i, acc) ELSE
     The({ IF p.t = "Error" THEN ROk(i, acc)
           ELSE IF p.t # "Ok" THEN p
           ELSE parameters(b, p.pos, ParamsInsert(acc, p.v.name, p.v.value))
     : p \in {parameter(b, space0(b, s.pos))} })
    : s \in {TagComplete(b, space0(b, i), <<59>>)} })

\* parser::spec
RECURSIVE spec_rest(_, _, _)
spec_rest(b, i, acc) ==
    The({ IF s.t # "Ok" THEN ROk(i, acc) ELSE
     The({ spec_rest(b, space0(b, e.pos), Append(acc, e.v))
     : e \in {helpers_token(b, space0(b, s.pos))} })
    : s \in {TagComplete(b, i, <<47>>)} })

spec(b, i) ==
    The({ spec_rest(b, space0(b, e.pos), <<e.v>>)
          : e \in {helpers_token(b, space0(b, i))} })

\* str::split(c): the pieces between the occurrences of c
RECURSIVE Split(_, _)
Split(s, c) ==
    LET S == {k \in 1..Len(s) : s[k] = c}
    IN  IF S = {} THEN <<s>>
        ELSE <<SubSeq(s, 1, MinOf(S) - 1)>> \o Split(From(s, MinOf(S) + 1), c)

\* str::splitn(2, c)
SplitN2(s, c) ==
    LET S == {k \in 1..Len(s) : s[k] = c}
    IN  IF S = {} THEN <<s>>
        ELSE <<SubSeq(s, 1, MinOf(S) - 1), From(s, MinOf(S) + 1)>>

RECURSIVE StripZeros(_)
StripZeros(d) == IF d # <<>> /\ d[1] = 48 THEN StripZeros(Tail(d)) ELSE d

\* str::parse for an unsigned type of at most maxDigits digits and value max
ParseUnsigned(s, maxDigits, max) ==
    LET d == IF s # <<>> /\ s[1] = 43 THEN Tail(s) ELSE s
        z == StripZeros(d)
    IN  IF d = <<>> \/ \E k \in 1..Len(d) : ~IsDigit(d[k]) THEN None
        ELSE IF Len(z) > maxDigits THEN None
        ELSE IF z # <<>> /\ DigitsValue(z) > max THEN None
        ELSE Some(IF z = <<>> THEN 0 ELSE DigitsValue(z))

\* str::parse::<u8>
ParseU8(s) == ParseUnsigned(s, 3, 255)

\* str::parse::<u16>
ParseU16(s) == ParseUnsigned(s, 5, 65535)

IsHexDigit(c) == IsDigit(c) \/ c \in 65..70 \/ c \in 97..102

\* u32::from_str_radix(s, 16); the number is kept as its hexadecimal digits
ParseHexU32(s) ==
    LET d == IF s # <<>> /\ s[1] = 43 THEN Tail(s) ELSE s
        z == StripZeros(d)
    IN  IF d = <<>> \/ \E k \in 1..Len(d) : ~IsHexDigit(d[k]) THEN None
        ELSE IF Len(z) > 8 THEN None
        ELSE Some(LowerStr(z))

\* "start" or "start-end" with both parts parsed by parse
ParseRange(value, parse(_)) ==
    IF value = None THEN RErr("Err")
    ELSE LET parts == SplitN2(value[1], 45)
         IN  IF parse(parts[1]) = None THEN RErr("Err")
             ELSE IF Len(parts) = 1 THEN ROk(0, Some(<<parse(parts[1])[1], None>>))
             ELSE IF parse(parts[2]) = None THEN RErr("Err")
             ELSE ROk(0, Some(<<parse(parts[1])[1], Some(parse(parts[2])[1])>>))

\* the unescape loop for one address of dest_addr / src_addr
RECURSIVE UnescapeLoop(_, _)
UnescapeLoop(s, acc) ==
    IF s = <<>> THEN ROk(0, acc)
    ELSE IF s[1] = 92
         THEN (IF Len(s) >= 2 THEN UnescapeLoop(From(s, 3), Append(acc, s[2]))
               ELSE RErr("Panic"))
    ELSE UnescapeLoop(Tail(s), Append(acc, s[1]))

\* the closure applied to each address of dest_addr / src_addr
UnquoteAddress(s) ==
    IF s = <<>> \/ s[1] # 34 \/ s[Len(s)] # 34 THEN RErr("Err")
    ELSE IF Len(s) - 1 < 1 THEN RErr("Panic")
    ELSE The({ IF r.t # "Ok" THEN r
               ELSE IF ~Utf8Valid(r.v) THEN RErr("Panic")
               ELSE r
               : r \in {UnescapeLoop(SubSeq(s, 2, Len(s) - 1), <<>>)} })

\* map(..).collect::<Result<Vec<_>, _>>(): the first failure decides
RECURSIVE CollectAddresses(_, _)
CollectAddresses(segs, acc) ==
    IF segs = <<>> THEN ROk(0, acc)
    ELSE The({ IF r.t # "Ok" THEN r ELSE CollectAddresses(Tail(segs), Append(acc, r.v))
               : r \in {UnquoteAddress(Head(segs))} })

RECURSIVE CollectSsrc(_, _)
CollectSsrc(segs, acc) ==
    IF segs = <<>> THEN ROk(0, acc)
    ELSE The({ IF n = None THEN RErr("Err")
               ELSE CollectSsrc(Tail(segs), Append(acc, n[1]))
               : n \in {ParseHexU32(Head(segs))} })

\* RtpTransportParameters::default()
RtpTransportParametersDefault ==
    [unicast |-> FALSE, multicast |-> FALSE, interleaved |-> None, ttl |-> None,
     ssrc |-> <<>>, mode |-> <<>>, dest_addr |-> <<>>, src_addr |-> <<>>,
     port |-> None, server_port |-> None, client_port |-> None,
     destination |-> None, source |-> None, append |-> FALSE, rtcp_mux |-> FALSE,
     others |-> <<>>]

\* impl From<&str> for TransportMode
TransportModeFrom(s) ==
    IF s = (* PLAY *) <<80, 76, 65, 89>> THEN [tag |-> "Play"]
    ELSE IF s = (* RECORD *) <<82, 69, 67, 79, 82, 68>> THEN [tag |-> "Record"]
    ELSE [tag |-> "Other", v |-> s]

\* TransportMode::as_str
TransportModeAsStr(m) ==
    CASE m.tag = "Play" -> (* PLAY *) <<80, 76, 65, 89>>
      [] m.tag = "Record" -> (* RECORD *) <<82, 69, 67, 79, 82, 68>>
      [] OTHER -> m.v

\* modes.split(',').map(TransportMode::from).collect()
MapModes(pieces) == [k \in 1..Len(pieces) |-> TransportModeFrom(pieces[k])]

\* one turn of the loop of RtpTransportParameters::try_from
TryFromStep(rp, name, value) ==
    CASE name = (* unicast *) <<117, 110, 105, 99, 97, 115, 116>> -> ROk(0, [rp EXCEPT !.unicast = TRUE])
      [] name = (* multicast *) <<109, 117, 108, 116, 105, 99, 97, 115, 116>> -> ROk(0, [rp EXCEPT !.multicast = TRUE])
      [] name = (* interleaved *) <<105, 110, 116, 101, 114, 108, 101, 97, 118, 101, 100>> ->
            The({ IF r.t # "Ok" THEN r ELSE ROk(0, [rp EXCEPT !.interleaved = r.v])
                  : r \in {ParseRange(value, ParseU8)} })
      [] name = (* ttl *) <<116, 116, 108>> ->
            IF value = None \/ ParseU8(value[1]) = None THEN RErr("Err")
            ELSE ROk(0, [rp EXCEPT !.ttl = ParseU8(value[1])])
      [] name = (* ssrc *) <<115, 115, 114, 99>> ->
            IF value = None THEN RErr("Err")
            ELSE The({ IF r.t # "Ok" THEN r ELSE ROk(0, [rp EXCEPT !.ssrc = r.v])
                       : r \in {CollectSsrc(Split(value[1], 47), <<>>)} })
      [] name = (* mode *) <<109, 111, 100, 101>> ->
            IF value = None THEN RErr("Err")
            ELSE The({ IF modes = <<>> \/ modes[1] # 34 \/ modes[Len(modes)] # 34
                       THEN RErr("Err")
                       ELSE IF Len(modes) - 1 < 1 THEN RErr("Panic")
                       ELSE ROk(0, [rp EXCEPT !.mode = MapModes(Split(SubSeq(modes, 2, Len(modes) - 1), 44))])
                       : modes \in {value[1]} })
      [] name \in {(* dest_addr *) <<100, 101, 115, 116, 95, 97, 100, 100, 114>>, (* src_addr *) <<115, 114, 99, 95, 97, 100, 100, 114>>} ->
            IF value = None THEN RErr("Err")
            ELSE The({ IF r.t # "Ok" THEN r
                       ELSE IF name = (* src_addr *) <<115, 114, 99, 95, 97, 100, 100, 114>> THEN ROk(0, [rp EXCEPT !.src_addr = r.v])
                       ELSE ROk(0, [rp EXCEPT !.dest_addr = r.v])
                       : r \in {CollectAddresses(Split(value[1], 47), <<>>)} })
      [] name \in {(* port *) <<112, 111, 114, 116>>, (* server_port *) <<115, 101, 114, 118, 101, 114, 95, 112, 111, 114, 116>>, (* client_port *) <<99, 108, 105, 101, 110, 116, 95, 112, 111, 114, 116>>} ->
            The({ IF r.t # "Ok" THEN r
                  ELSE IF name = (* port *) <<112, 111, 114, 116>> THEN ROk(0, [rp EXCEPT !.port = r.v])
                  ELSE IF name = (* server_port *) <<115, 101, 114, 118, 101, 114, 95, 112, 111, 114, 116>> THEN ROk(0, [rp EXCEPT !.server_port = r.v])
                  ELSE ROk(0, [rp EXCEPT !.client_port = r.v])
                  : r \in {ParseRange(value, ParseU16)} })
      [] name = (* destination *) <<100, 101, 115, 116, 105, 110, 97, 116, 105, 111, 110>> ->
            IF value = None THEN RErr("Err") ELSE ROk(0, [rp EXCEPT !.destination = value])
      [] name = (* source *) <<115, 111, 117, 114, 99, 101>> ->
            IF value = None THEN RErr("Err") ELSE ROk(0, [rp EXCEPT !.source = value])
      [] name = (* append *) <<97, 112, 112, 101, 110, 100>> -> ROk(0, [rp EXCEPT !.append = TRUE])
      [] name = (* RTCP-mux *) <<82, 84, 67, 80, 45, 109, 117, 120>> -> ROk(0, [rp EXCEPT !.rtcp_mux = TRUE])
      [] OTHER -> ROk(0, [rp EXCEPT !.others = ParamsInsert(rp.others, name, value)])

\* impl TryFrom<TransportParameters> for RtpTransportParameters: the
\* parameters are visited in key order
RECURSIVE TryFromLoop(_, _)
TryFromLoop(params, rp) ==
    IF params = <<>> THEN ROk(0, rp)
    ELSE The({ IF r.t # "Ok" THEN r ELSE TryFromLoop(Tail(params), r.v)
               : r \in {TryFromStep(rp, Head(params).name, Head(params).value)} })

RtpTransportParametersTryFrom(params) == TryFromLoop(params, RtpTransportParametersDefault)

\* parser::transport
transport(b, i) ==
    The({
     The({ IF p.t # "Ok" THEN p
           ELSE IF Len(s.v) \in {2, 3} /\ s.v[1] = (* RTP *) <<82, 84, 80>>
           THEN The({ IF r.t = "Err" THEN RErr("Error")
                      ELSE IF r.t = "Panic" THEN r
                      ELSE ROk(p.pos, [kind |-> "Rtp", profile |-> s.v[2],
                                       lower_transport |->
                                           IF Len(s.v) = 3 THEN Some(s.v[3]) ELSE None,
                                       params |-> r.v])
                      : r \in {RtpTransportParametersTryFrom(p.v)} })
           ELSE ROk(p.pos, [kind |-> "Other", spec |-> s.v, params |-> p.v])
     : p \in {parameters(b, s.pos, <<>>)} })
    : s \in {spec(b, i)} })

\* separated_list1(tag(","), transport) after the first transport
RECURSIVE transports_rest(_, _, _)
transports_rest(b, i, acc) ==
    The({ IF s.t # "Ok" THEN ROk(i, acc) ELSE
     The({ IF e.t = "Error" THEN ROk(i, acc)
           ELSE IF e.t # "Ok" THEN e
           ELSE transports_rest(b, e.pos, Append(acc, e.v))
     : e \in {transport(b, s.pos)} })
    : s \in {TagComplete(b, i, <<44>>)} })

\* parser::transports
transports(b) ==
    The({ IF e.t # "Ok" THEN e ELSE
     The({ IF r.t # "Ok" THEN r
           ELSE IF r.pos <= Len(b) THEN RErr("Error")
           ELSE r
     : r \in {transports_rest(b, e.pos, <<e.v>>)} })
    : e \in {transport(b, 1)} })

\* Transports::from_headers
TransportsFromHeaders(h) ==
    The({ IF header = None THEN [t |-> "Ok", v |-> None] ELSE
     The({ IF r.t = "Ok" THEN [t |-> "Ok", v |-> Some(r.v)]
           ELSE IF r.t = "Panic" THEN [t |-> "Panic", v |-> None]
           ELSE [t |-> "Err", v |-> None]
     : r \in {transports(header[1])} })
    : header \in {HeadersGet(h, TRANSPORT)} })

(***************************************************************************)
(* A caller that stores a Transport header value and reads it back typed.  *)
(***************************************************************************)
MaxParams == 2

TransportSpecs == {(* RTP/AVP *) <<82, 84, 80, 47, 65, 86, 80>>, (* RTP/AVP/TCP *) <<82, 84, 80, 47, 65, 86, 80, 47, 84, 67, 80>>, (* RAW/RAW/UDP *) <<82, 65, 87, 47, 82, 65, 87, 47, 85, 68, 80>>}

TransportParams ==
    {(* ;unicast *) <<59, 117, 110, 105, 99, 97, 115, 116>>,
     <<59, 109, 111, 100, 101, 61, 34, 80, 76, 65, 89, 34>>,
     <<59, 109, 111, 100, 101, 61, 34>>,
     <<59, 100, 101, 115, 116, 95, 97, 100, 100, 114, 61, 34, 97, 34, 47, 34, 98, 34>>,
     <<59, 115, 114, 99, 95, 97, 100, 100, 114, 61, 34, 92, 34>>,
     (* ;interleaved=0-256 *) <<59, 105, 110, 116, 101, 114, 108, 101, 97, 118, 101, 100, 61, 48, 45, 50, 53, 54>>,
     (* ;ttl=1 *) <<59, 116, 116, 108, 61, 49>>,
     <<59, 120, 61, 34, 97>>}

TransportNames == {TRANSPORT, (* transport *) <<116, 114, 97, 110, 115, 112, 111, 114, 116>>, (* CSeq *) <<67, 83, 101, 113>>}

InitTyped ==
    /\ pc = "typed"
    /\ InitCommon

\* the header value begins with a transport spec
DoStartValue ==
    /\ pc = "typed"
    /\ \E s \in TransportSpecs : wire' = s
    /\ pc' = "value"
    /\ UNCHANGED <<builder, calls, msg, prev, cut, res, sent, got, offset, input>>

\* one more parameter on the transport
DoAddParameter ==
    /\ pc = "value"
    /\ calls < MaxParams
    /\ \E p \in TransportParams : wire' = wire \o p
    /\ calls' = calls + 1
    /\ UNCHANGED <<pc, builder, msg, prev, cut, res, sent, got, offset, input>>

\* a second transport, with at most one parameter, after a comma
DoAddTransport ==
    /\ pc = "value"
    /\ \E s \in TransportSpecs, p \in TransportParams \cup {<<>>} : wire' = wire \o <<44>> \o s \o p
    /\ pc' = "value2"
    /\ UNCHANGED <<builder, calls, msg, prev, cut, res, sent, got, offset, input>>

\* headers.insert(name, value)
DoStoreHeader ==
    /\ pc \in {"value", "value2"}
    /\ \E n \in TransportNames : input' = HeadersInsert(HeadersNew, n, wire)
    /\ pc' = "stored"
    /\ UNCHANGED <<builder, calls, msg, prev, wire, cut, res, sent, got, offset>>

\* Transports::from_headers(&headers)
DoFromHeaders ==
    /\ pc \in {"typed", "stored"}
    /\ res' = TransportsFromHeaders(input)
    /\ pc' = "typed-done"
    /\ UNCHANGED <<builder, calls, msg, prev, wire, cut, sent, got, offset, input>>

NextTyped ==
    \/ DoStartValue
    \/ DoAddParameter
    \/ DoAddTransport
    \/ DoStoreHeader
    \/ DoFromHeaders

SpecTyped == InitTyped /\ [][NextTyped]_vars

\* C7: from_headers of a typed header is total: on every header map it
\* returns Ok(None), Ok(Some(h)) or Err(HeaderParseError) and never panics.
C7_FromHeadersTotal ==
    pc = "typed-done" => res.t \in {"Ok", "Err"}

(***************************************************************************)
(* StatusCode and its numeric coercions (lib.rs).                          *)
(***************************************************************************)
\* u16::MAX
U16Max == 65535

\* the named (non-Extension) status codes
NamedStatusCodes == {Status(tag) : tag \in DOMAIN StatusToTable}

InitStatus ==
    /\ pc = "status"
    /\ InitCommon

\* the caller picks a named status code
DoPickStatusCode ==
    /\ pc = "status"
    /\ \E c \in NamedStatusCodes : input' = <<c>>
    /\ pc' = "code"
    /\ UNCHANGED <<builder, calls, msg, prev, wire, cut, res, sent, got, offset>>

\* the caller picks a u16
DoPickStatusNumber ==
    /\ pc = "status"
    /\ \E n \in 0..U16Max : input' = <<n>>
    /\ pc' = "number"
    /\ UNCHANGED <<builder, calls, msg, prev, wire, cut, res, sent, got, offset>>

\* StatusCode::from(u16::from(c))
DoStatusToU16AndBack ==
    /\ pc = "code"
    /\ res' = [t |-> "code", number |-> StatusToU16(input[1]),
               back |-> StatusFromU16(StatusToU16(input[1]))]
    /\ pc' = "code-done"
    /\ UNCHANGED <<builder, calls, msg, prev, wire, cut, sent, got, offset, input>>

\* u16::from(StatusCode::from(n))
DoStatusFromU16AndBack ==
    /\ pc = "number"
    /\ res' = [t |-> "number", code |-> StatusFromU16(input[1]),
               back |-> StatusToU16(StatusFromU16(input[1]))]
    /\ pc' = "number-done"
    /\ UNCHANGED <<builder, calls, msg, prev, wire, cut, sent, got, offset, input>>

NextStatus ==
    \/ DoPickStatusCode
    \/ DoPickStatusNumber
    \/ DoStatusToU16AndBack
    \/ DoStatusFromU16AndBack

SpecStatus == InitStatus /\ [][NextStatus]_vars

\* C11: StatusCode round-trips through its numeric coercion: a named code
\* converted to u16 and back is the same code, a u16 converted to a code and
\* back is the same number, and a number that is not the number of a named
\* code becomes Extension(n).
C11_StatusCodeRoundTrip ==
    /\ pc = "code-done" => res.back = input[1]
    /\ pc = "number-done"
        => /\ res.back = input[1]
           /\ (\A c \in NamedStatusCodes : StatusToU16(c) # input[1])
                => res.code = StatusExtension(input[1])

(***************************************************************************)
(* Interleaved data written by the serializer, with bodies up to and past  *)
(* the largest length a u16 holds.                                         *)
(***************************************************************************)
MaxDataLen == 4

\* body lengths: the short ones and those around u16::MAX
DataBodyLens == 0..MaxDataLen \cup {U16Max + d : d \in 0..2}

DataChannels == {0, 1, 13, 36, 65, 128, 254, 255}

InitData ==
    /\ pc = "data"
    /\ InitCommon

\* Data::new(channel_id, body)
DoDataNewAnyLen ==
    /\ pc = "data"
    /\ \E c \in DataChannels, n \in DataBodyLens :
          msg' = Data(c, [k \in 1..n |-> 97])
    /\ pc' = "data-built"
    /\ UNCHANGED <<builder, calls, prev, wire, cut, res, sent, got, offset, input>>

\* data.write(&mut wire)
DoDataWrite ==
    /\ pc = "data-built"
    /\ wire' = Write(msg)
    /\ pc' = "data-written"
    /\ UNCHANGED <<builder, calls, msg, prev, cut, res, sent, got, offset, input>>

NextData ==
    \/ DoDataNewAnyLen
    \/ DoDataWrite

SpecData == InitData /\ [][NextData]_vars

\* C12: a Data message with a body of n bytes is written as '$', the channel
\* id, a two-byte big-endian length and the n body bytes, and the value of the
\* length field is n, the number of body bytes written after it.
C12_DataLengthField ==
    pc = "data-written"
        => /\ Len(wire) = 4 + Len(msg.body)
           /\ wire[1] = 36
           /\ wire[2] = msg.channel_id
           /\ SubSeq(wire, 5, Len(wire)) = msg.body
           /\ wire[3] * 256 + wire[4] = Len(msg.body)

(***************************************************************************)
(* Message::parse on interleaved data frames: leading CRLF pairs, '$' and  *)
(* any bytes after it.                                                     *)
(***************************************************************************)
MaxCrlfPairs == 2
MaxFrameLen == 6

\* bytes after the '$': small numbers for the channel, the length and the
\* body, CR and '$' itself
FrameBytes == {0, 1, 2, 13, 36}

InitFrame ==
    /\ pc = "crlf"
    /\ InitCommon

\* one more CRLF pair ahead of the frame; offset counts the bytes of the pairs
DoFeedCrlf ==
    /\ pc = "crlf"
    /\ offset < 2 * MaxCrlfPairs
    /\ wire' = wire \o CRLF
    /\ offset' = offset + 2
    /\ UNCHANGED <<pc, builder, calls, msg, prev, cut, res, sent, got, input>>

\* the '$' that starts the frame
DoFeedDollar ==
    /\ pc = "crlf"
    /\ wire' = Append(wire, 36)
    /\ pc' = "frame"
    /\ UNCHANGED <<builder, calls, msg, prev, cut, res, sent, got, offset, input>>

\* one more byte after the '$'
DoFeedFrameByte ==
    /\ pc = "frame"
    /\ Len(wire) - offset < MaxFrameLen
    /\ \E c \in FrameBytes : wire' = Append(wire, c)
    /\ UNCHANGED <<pc, builder, calls, msg, prev, cut, res, sent, got, offset, input>>

\* Message::parse(&wire)
DoParseFrame ==
    /\ pc = "frame"
    /\ res' = MessageParse(wire)
    /\ pc' = "frame-parsed"
    /\ UNCHANGED <<builder, calls, msg, prev, wire, cut, sent, got, offset, input>>

NextFrame ==
    \/ DoFeedCrlf
    \/ DoFeedDollar
    \/ DoFeedFrameByte
    \/ DoParseFrame

SpecFrame == InitFrame /\ [][NextFrame]_vars

\* the bytes after the skipped CRLF pairs
FrameRest == From(wire, offset + 1)

\* the length field of the frame, read big-endian
FrameLength == FrameRest[3] * 256 + FrameRest[4]

\* C13: after the leading CRLF pairs an input that goes on with '$' is decoded
\* as a data frame only: with c the next byte and L the two bytes after it read
\* big-endian, the result is Data{c, the next L bytes} with consumed ending
\* right after them when at least 4 + L bytes are there, and Incomplete
\* otherwise.
C13_DataFrameDecoding ==
    pc = "frame-parsed"
        => IF Len(FrameRest) >= 4 /\ Len(FrameRest) >= 4 + FrameLength
           THEN res = POk(Data(FrameRest[2], SubSeq(FrameRest, 5, 4 + FrameLength)),
                          offset + 4 + FrameLength)
           ELSE res = PErr("Incomplete")

\* a frame behind a CRLF pair with a body and a byte left over after it
C13_Witness ==
    /\ pc = "frame-parsed"
    /\ offset > 0
    /\ res.t = "Ok"
    /\ res.msg.kind = "Data"
    /\ Len(res.msg.body) = 1
    /\ res.consumed < Len(wire)

(***************************************************************************)
(* The body of a request or response: a start line, header lines with and  *)
(* without Content-Length, the empty line and the bytes after it.          *)
(***************************************************************************)
MaxBodyHeaders == 2
MaxFollow == 2

BodyStartLines == {<<79, 80, 84, 73, 79, 78, 83, 32, 42, 32, 82, 84, 83, 80, 47, 49, 46, 48>> \o CRLF, (* RTSP/1.0 200 OK *) <<82, 84, 83, 80, 47, 49, 46, 48, 32, 50, 48, 48, 32, 79, 75>> \o CRLF}

\* the last two values are usize::MAX and usize::MAX + 1 on 64 bits
BodyHeaderLines ==
    {Entry(CONTENT_LENGTH, <<48>>),
     Entry(CONTENT_LENGTH, <<50>>),
     Entry((* content-length *) <<99, 111, 110, 116, 101, 110, 116, 45, 108, 101, 110, 103, 116, 104>>, <<49>>),
     Entry((* CONTENT-LENGTH *) <<67, 79, 78, 84, 69, 78, 84, 45, 76, 69, 78, 71, 84, 72>>, (* 03 *) <<48, 51>>),
     Entry((* CSeq *) <<67, 83, 101, 113>>, <<49>>),
     Entry(CONTENT_LENGTH, (* 18446744073709551615 *) <<49, 56, 52, 52, 54, 55, 52, 52, 48, 55, 51, 55, 48, 57, 53, 53, 49, 54, 49, 53>>),
     Entry(CONTENT_LENGTH, (* 18446744073709551616 *) <<49, 56, 52, 52, 54, 55, 52, 52, 48, 55, 51, 55, 48, 57, 53, 53, 49, 54, 49, 54>>)}

\* 'a', CR, '$'
FollowBytes == {97, 13, 36}

InitBody ==
    /\ pc = "head"
    /\ InitCommon

\* the request line or status line
DoBodyStartLine ==
    /\ pc = "head"
    /\ input = <<>>
    /\ \E l \in BodyStartLines : wire' = l
    /\ input' = <<[kind |-> "start"]>>
    /\ UNCHANGED <<pc, builder, calls, msg, prev, cut, res, sent, got, offset>>

\* one more header line
DoBodyHeaderLine ==
    /\ pc = "head"
    /\ input # <<>>
    /\ Len(input) <= MaxBodyHeaders
    /\ \E h \in BodyHeaderLines :
          /\ wire' = wire \o h.name \o (* :  *) <<58, 32>> \o h.value \o CRLF
          /\ input' = Append(input, [kind |-> "header", name |-> h.name, value |-> h.value])
    /\ UNCHANGED <<pc, builder, calls, msg, prev, cut, res, sent, got, offset>>

\* the empty line; offset keeps where the header section ends
DoBodyEmptyLine ==
    /\ pc = "head"
    /\ input # <<>>
    /\ wire' = wire \o CRLF
    /\ offset' = Len(wire) + 2
    /\ pc' = "follow"
    /\ UNCHANGED <<builder, calls, msg, prev, cut, res, sent, got, input>>

\* one more byte after the empty line
DoBodyFollowByte ==
    /\ pc = "follow"
    /\ Len(wire) - offset < MaxFollow
    /\ \E c \in FollowBytes : wire' = Append(wire, c)
    /\ UNCHANGED <<pc, builder, calls, msg, prev, cut, res, sent, got, offset, input>>

\* Message::parse(&wire)
DoParseBody ==
    /\ pc = "follow"
    /\ res' = MessageParse(wire)
    /\ pc' = "body-parsed"
    /\ UNCHANGED <<builder, calls, msg, prev, wire, cut, sent, got, offset, input>>

NextBody ==
    \/ DoBodyStartLine
    \/ DoBodyHeaderLine
    \/ DoBodyEmptyLine
    \/ DoBodyFollowByte
    \/ DoParseBody

SpecBody == InitBody /\ [][NextBody]_vars

\* the digits of a decimal number without its leading zeros
RECURSIVE Significant(_)
Significant(v) == IF v # <<>> /\ v[1] = 48 THEN Significant(Tail(v)) ELSE v

\* the decimal number a is greater than the decimal number b
DecimalGreater(a, b) ==
    \/ Len(Significant(a)) > Len(Significant(b))
    \/ /\ Len(Significant(a)) = Len(Significant(b))
       /\ LexCmp(Significant(a), Significant(b)) = "Greater"

\* the value of the Content-Length header of the input, "0" without one
ContentLengthText ==
    LET S == {k \in 1..Len(input) : IsContentLengthLine(input[k])}
    IN  IF S = {} THEN <<48>> ELSE input[MinOf(S)].value

\* the bytes after the empty line
Following == From(wire, offset + 1)

\* the body is the first N bytes after the empty line and consumed ends there
BodyIsTaken ==
    /\ res.t = "Ok"
    /\ res.msg.body = SubSeq(Following, 1, DigitsValue(ContentLengthText))
    /\ res.consumed = offset + DigitsValue(ContentLengthText)

\* C14 as stated: the body is the N bytes after the empty line, N the value
\* of Content-Length or 0, consumed ends after them, and with fewer than N
\* bytes there the result is Incomplete.
C14_BodyIsContentLength ==
    pc = "body-parsed"
        => IF DecimalGreater(ContentLengthText, DecimalBytes(Len(Following)))
           THEN res = PErr("Incomplete")
           ELSE BodyIsTaken

\* C14: the same for a Content-Length value that is not above usize::MAX; a
\* value above it is answered with Error.
C14_BodyIsContentLengthInUsize ==
    pc = "body-parsed"
        => IF DecimalGreater(ContentLengthText, UsizeMaxDecimal)
           THEN res = PErr("Error")
           ELSE IF DecimalGreater(ContentLengthText, DecimalBytes(Len(Following)))
           THEN res = PErr("Incomplete")
           ELSE BodyIsTaken

\* content-length in lower case with one byte for the body and one left over
C14_Witness ==
    /\ pc = "body-parsed"
    /\ Len(input) = 3
    /\ input[2].name = (* content-length *) <<99, 111, 110, 116, 101, 110, 116, 45, 108, 101, 110, 103, 116, 104>>
    /\ Len(Following) = 2
    /\ res.t = "Ok"
    /\ Len(res.msg.body) = 1
    /\ res.consumed = Len(wire) - 1

(***************************************************************************)
(* Line terminators: a textual message whose lines end in CRLF or in a     *)
(* bare LF.                                                                *)
(***************************************************************************)
MaxLines == 2

LineStarts == {<<79, 80, 84, 73, 79, 78, 83, 32, 42, 32, 82, 84, 83, 80, 47, 49, 46, 48>>, (* RTSP/1.0 200 OK *) <<82, 84, 83, 80, 47, 49, 46, 48, 32, 50, 48, 48, 32, 79, 75>>}

LineHeaders == {(* CSeq: 1 *) <<67, 83, 101, 113, 58, 32, 49>>, (* Session: x *) <<83, 101, 115, 115, 105, 111, 110, 58, 32, 120>>, (* A: *) <<65, 58>>}

\* CRLF and the bare LF
LineTerminators == {CRLF, <<10>>}

InitLines ==
    /\ pc = "lines"
    /\ InitCommon

\* the start line and its terminator
DoLineStart ==
    /\ pc = "lines"
    /\ input = <<>>
    /\ \E l \in LineStarts, t \in LineTerminators :
          /\ wire' = l \o t
          /\ input' = <<[kind |-> "start", term |-> t]>>
    /\ UNCHANGED <<pc, builder, calls, msg, prev, cut, res, sent, got, offset>>

\* a header line and its terminator
DoLineHeader ==
    /\ pc = "lines"
    /\ input # <<>>
    /\ Len(input) <= MaxLines
    /\ \E h \in LineHeaders, t \in LineTerminators :
          /\ wire' = wire \o h \o t
          /\ input' = Append(input, [kind |-> "header", term |-> t])
    /\ UNCHANGED <<pc, builder, calls, msg, prev, cut, res, sent, got, offset>>

\* the empty line, always CRLF
DoLineEmpty ==
    /\ pc = "lines"
    /\ input # <<>>
    /\ wire' = wire \o CRLF
    /\ pc' = "lines-ended"
    /\ UNCHANGED <<builder, calls, msg, prev, cut, res, sent, got, offset, input>>

\* Message::parse(&wire)
DoParseLines ==
    /\ pc = "lines-ended"
    /\ res' = MessageParse(wire)
    /\ pc' = "lines-parsed"
    /\ UNCHANGED <<builder, calls, msg, prev, wire, cut, sent, got, offset, input>>

NextLines ==
    \/ DoLineStart
    \/ DoLineHeader
    \/ DoLineEmpty
    \/ DoParseLines

SpecLines == InitLines /\ [][NextLines]_vars

\* C15: Message::parse never returns Ok for a textual message in which the
\* start line or a header line ends in a bare LF instead of CRLF.
C15_BareLfRejected ==
    (pc = "lines-parsed" /\ \E k \in 1..Len(input) : input[k].term = <<10>>)
        => res.t # "Ok"

(***************************************************************************)
(* Header values continued over several lines: the value of one header is  *)
(* put together from pieces and parsed into an owned message.              *)
(***************************************************************************)
MaxPieces == 3

SUPPORTED == (* Supported *) <<83, 117, 112, 112, 111, 114, 116, 101, 100>>

\* CRLF followed by a space, by a tab and a space
FoldPieces == {CRLF \o <<32>>, CRLF \o <<9, 32>>}

\* text, a comma, and the bare LF that header_value lets through
TextPieces == {(* play *) <<112, 108, 97, 121>>, <<44>>, <<10>>}

InitFold ==
    /\ pc = "fold"
    /\ InitCommon

\* one more piece of the value
DoFoldPiece ==
    /\ pc = "fold"
    /\ Len(input) < MaxPieces
    /\ \E p \in FoldPieces \cup TextPieces : input' = Append(input, p)
    /\ UNCHANGED <<pc, builder, calls, msg, prev, wire, cut, res, sent, got, offset>>

RECURSIVE Concat(_)
Concat(ps) == IF ps = <<>> THEN <<>> ELSE Head(ps) \o Concat(Tail(ps))

\* the message with the value in its Supported header
DoFoldWrite ==
    /\ pc = "fold"
    /\ wire' = <<79, 80, 84, 73, 79, 78, 83, 32, 42, 32, 82, 84, 83, 80, 47, 50, 46, 48>> \o CRLF \o SUPPORTED \o <<58, 32>>
                  \o Concat(input) \o CRLF \o CRLF
    /\ pc' = "fold-written"
    /\ UNCHANGED <<builder, calls, msg, prev, cut, res, sent, got, offset, input>>

\* Message::parse(&wire)
DoParseFold ==
    /\ pc = "fold-written"
    /\ res' = MessageParse(wire)
    /\ pc' = "fold-parsed"
    /\ UNCHANGED <<builder, calls, msg, prev, wire, cut, sent, got, offset, input>>

NextFold ==
    \/ DoFoldPiece
    \/ DoFoldWrite
    \/ DoParseFold

SpecFold == InitFold /\ [][NextFold]_vars

\* the value with every CRLF-plus-whitespace run replaced by one space
RECURSIVE Unfolded(_)
Unfolded(ps) ==
    IF ps = <<>> THEN <<>>
    ELSE (IF Head(ps) \in FoldPieces THEN <<32>> ELSE Head(ps)) \o Unfolded(Tail(ps))

\* C16: the value of a header continued over several lines is stored in the
\* owned message with each CRLF-plus-whitespace run replaced by exactly one
\* space and holds no CR and no LF.
C16_ContinuationCollapsed ==
    (pc = "fold-parsed" /\ \E k \in 1..Len(input) : input[k] \in FoldPieces)
        => /\ res.t = "Ok"
           /\ HeadersGet(res.msg.headers, SUPPORTED) = Some(Unfolded(input))
           /\ \A k \in 1..Len(Unfolded(input)) : Unfolded(input)[k] \notin {13, 10}

(***************************************************************************)
(* The Headers map: insert, append, remove and get on one map, starting    *)
(* from Headers::new().  got is the map, sent the calls made on it, each   *)
(* with the map it was made on.                                            *)
(***************************************************************************)
MaxMapOps == 3

\* "A", "a", "AB", "B"
MapNames == {<<65>>, <<97>>, <<65, 66>>, <<66>>}

MapValues == {<<49>>, <<50>>}

InitHeaders ==
    /\ pc = "map"
    /\ InitCommon

Call(op, name, value) == [op |-> op, name |-> name, value |-> value, before |-> got]

\* headers.insert(name, value)
DoHeadersInsert ==
    /\ pc = "map"
    /\ Len(sent) < MaxMapOps
    /\ \E n \in MapNames, v \in MapValues :
          /\ got' = HeadersInsert(got, n, v)
          /\ sent' = Append(sent, Call("insert", n, v))
    /\ UNCHANGED <<pc, builder, calls, msg, prev, wire, cut, res, offset, input>>

\* headers.append(name, value)
DoHeadersAppend ==
    /\ pc = "map"
    /\ Len(sent) < MaxMapOps
    /\ \E n \in MapNames, v \in MapValues :
          /\ got' = HeadersAppend(got, n, v)
          /\ sent' = Append(sent, Call("append", n, v))
    /\ UNCHANGED <<pc, builder, calls, msg, prev, wire, cut, res, offset, input>>

\* headers.remove(&name)
DoHeadersRemove ==
    /\ pc = "map"
    /\ Len(sent) < MaxMapOps
    /\ \E n \in MapNames :
          /\ got' = HeadersRemove(got, n)
          /\ sent' = Append(sent, Call("remove", n, <<>>))
    /\ UNCHANGED <<pc, builder, calls, msg, prev, wire, cut, res, offset, input>>

\* headers.get(&name)
DoHeadersGet ==
    /\ pc = "map"
    /\ Len(sent) < MaxMapOps
    /\ \E n \in MapNames :
          /\ res' = [t |-> "get", value |-> HeadersGet(got, n)]
          /\ sent' = Append(sent, Call("get", n, <<>>))
    /\ UNCHANGED <<pc, builder, calls, msg, prev, wire, cut, got, offset, input>>

NextHeaders ==
    \/ DoHeadersInsert
    \/ DoHeadersAppend
    \/ DoHeadersRemove
    \/ DoHeadersGet

SpecHeaders == InitHeaders /\ [][NextHeaders]_vars

\* the values of the entries of the map h whose name is the given name
ValuesUnder(h, name) ==
    {h[k].value : k \in {j \in 1..Len(h) : HeaderNameEq(h[j].name, name)}}

\* the number of entries of the map h whose name is the given name
EntriesUnder(h, name) ==
    Cardinality({j \in 1..Len(h) : HeaderNameEq(h[j].name, name)})

\* C17: insert(name, v) leaves exactly v stored under name, whatever was
\* there; append(name, b) where name holds a leaves "a, b" under name; and
\* append(name, b) where name is absent gives the map insert(name, b) gives.
C17_InsertAndAppend ==
    (pc = "map" /\ sent # <<>>)
        => LET c == sent[Len(sent)]
           IN  /\ c.op = "insert"
                    => /\ EntriesUnder(got, c.name) = 1
                       /\ ValuesUnder(got, c.name) = {c.value}
                       /\ HeadersGet(got, c.name) = Some(c.value)
               /\ (c.op = "append" /\ EntriesUnder(c.before, c.name) = 1)
                    => /\ EntriesUnder(got, c.name) = 1
                       /\ \E a \in ValuesUnder(c.before, c.name) :
                             /\ ValuesUnder(got, c.name) = {a \o <<44, 32>> \o c.value}
                             /\ HeadersGet(got, c.name) = Some(a \o <<44, 32>> \o c.value)
               /\ (c.op = "append" /\ EntriesUnder(c.before, c.name) = 0)
                    => got = HeadersInsert(c.before, c.name, c.value)

\* the last call was made with a name that differs from the name of the
\* insert before it in ASCII case at most
AfterInsertOf(op) ==
    /\ pc = "map"
    /\ Len(sent) >= 2
    /\ sent[Len(sent) - 1].op = "insert"
    /\ sent[Len(sent)].op = op
    /\ LowerStr(sent[Len(sent)].name) = LowerStr(sent[Len(sent) - 1].name)

\* C18: for names a and b that differ only in ASCII case, after insert(a, v)
\* the lookup get(b) returns v, insert(b, w) replaces that value without
\* adding an entry, and remove(b) removes the entry; on a new map this leaves
\* the single entry a with the value w, and the empty map.
C18_CaseInsensitiveLookup ==
    LET a == sent[Len(sent) - 1]
        b == sent[Len(sent)]
    IN  /\ AfterInsertOf("get") => res.value = Some(a.value)
        /\ AfterInsertOf("insert")
             => /\ Len(got) = Len(b.before)
                /\ HeadersGet(got, a.name) = Some(b.value)
                /\ a.before = <<>> => got = <<Entry(a.name, b.value)>>
        /\ AfterInsertOf("remove")
             => /\ Len(got) = Len(b.before) - 1
                /\ EntriesUnder(got, a.name) = 0
                /\ a.before = <<>> => got = <<>>

\* insert("A", "1"), insert("a", "2") and remove("A") on a new map
C18_Witness ==
    /\ pc = "map"
    /\ Len(sent) = 3
    /\ sent[1].op = "insert" /\ sent[1].name = <<65>>
    /\ sent[2].op = "insert" /\ sent[2].name = <<97>>
    /\ sent[2].before = <<Entry(<<65>>, <<49>>)>>
    /\ sent[3].op = "remove" /\ sent[3].name = <<65>>
    /\ sent[3].before = <<Entry(<<65>>, <<50>>)>>
    /\ got = <<>>

(***************************************************************************)
(* Serialised output and insertion order: the same headers are inserted    *)
(* into two messages in two orders and both messages are written.  sent    *)
(* is the first order, got the second.                                     *)
(***************************************************************************)
MaxOrderHeaders == 3

\* "A", "AB", "b", "CSeq": pairwise distinct, also when case is ignored
OrderNames == {<<65>>, <<65, 66>>, <<98>>, (* CSeq *) <<67, 83, 101, 113>>}

OrderValues == {<<49>>, <<50>>}

InitOrder ==
    /\ pc = "order"
    /\ InitCommon

\* Request::insert_header
RequestInsertHeader(m, name, value) ==
    [m EXCEPT !.headers = HeadersInsert(m.headers, name, value)]

\* insert_header for each header of hs in turn
RECURSIVE InsertAll(_, _)
InsertAll(m, hs) ==
    IF hs = <<>> THEN m
    ELSE InsertAll(RequestInsertHeader(m, Head(hs).name, Head(hs).value), Tail(hs))

\* one more header with a name not picked so far
DoOrderHeader ==
    /\ pc = "order"
    /\ Len(sent) < MaxOrderHeaders
    /\ \E n \in OrderNames, v \in OrderValues :
          /\ \A k \in 1..Len(sent) : ~HeaderNameEq(sent[k].name, n)
          /\ sent' = Append(sent, Entry(n, v))
    /\ UNCHANGED <<pc, builder, calls, msg, prev, wire, cut, res, got, offset, input>>

\* the second order: the same headers, rearranged
DoOrderPermute ==
    /\ pc = "order"
    /\ \E p \in [1..Len(sent) -> 1..Len(sent)] :
          /\ \A i, j \in 1..Len(sent) : p[i] = p[j] => i = j
          /\ got' = [k \in 1..Len(sent) |-> sent[p[k]]]
    /\ pc' = "ordered"
    /\ UNCHANGED <<builder, calls, msg, prev, wire, cut, res, sent, offset, input>>

\* two messages with the same start line and body, each given the headers
\* with insert_header in its order
DoOrderBuild ==
    /\ pc = "ordered"
    /\ \E body \in Bodies :
          LET m == RequestBuilderBuild(RequestBuilderNew(Method("Options"), "V1_0"), body)
          IN  /\ input' = <<m>>
              /\ msg' = InsertAll(m, sent)
              /\ prev' = InsertAll(m, got)
    /\ pc' = "order-built"
    /\ UNCHANGED <<builder, calls, wire, cut, res, sent, got, offset>>

\* both messages are written
DoOrderWrite ==
    /\ pc = "order-built"
    /\ res' = [t |-> "written", first |-> Write(msg), second |-> Write(prev)]
    /\ pc' = "order-written"
    /\ UNCHANGED <<builder, calls, msg, prev, wire, cut, sent, got, offset, input>>

NextOrder ==
    \/ DoOrderHeader
    \/ DoOrderPermute
    \/ DoOrderBuild
    \/ DoOrderWrite

SpecOrder == InitOrder /\ [][NextOrder]_vars

\* the headers of the set S as lines "Name: Value" CRLF, in ascending order
\* of the lower-cased names
RECURSIVE LinesInNameOrder(_)
LinesInNameOrder(S) ==
    IF S = {} THEN <<>>
    ELSE LET e == CHOOSE x \in S :
                     \A y \in S : LexCmp(LowerStr(x.name), LowerStr(y.name)) # "Greater"
         IN  e.name \o <<58, 32>> \o e.value \o CRLF \o LinesInNameOrder(S \ {e})

\* C19: two messages with the same start line and body and the same headers,
\* the names pairwise distinct, inserted in different orders are written as
\* the same bytes: the start line, the header lines in ascending
\* case-insensitive name order, an empty line and the body.
C19_OrderIndependent ==
    pc = "order-written"
        => /\ res.first = res.second
           /\ res.first = WriteRequestLine(input[1])
                            \o LinesInNameOrder({sent[k] : k \in 1..Len(sent)}
                                    \cup {input[1].headers[k] : k \in 1..Len(input[1].headers)})
                            \o CRLF \o input[1].body

(***************************************************************************)
(* Typed headers read from a map that does not hold them (headers/         *)
(* session.rs, headers/transport.rs).                                      *)
(***************************************************************************)
SESSION == (* Session *) <<83, 101, 115, 115, 105, 111, 110>>

\* str::parse::<u64>: u64 is as wide as the usize of this model
ParseU64(s) == ParseUsize(s)

\* a reader that looks for the timeout in the second piece only
SessionFromHeadersSecondOnly(h) ==
    The({ IF header = None THEN [t |-> "Ok", v |-> None] ELSE
     The({ IF Len(parts) < 2 \/ ~StartsWithAt(parts[2], 1, (* timeout= *) <<116, 105, 109, 101, 111, 117, 116, 61>>)
           THEN [t |-> "Ok", v |-> Some([id |-> parts[1], timeout |-> None])]
           ELSE The({ IF n = None THEN [t |-> "Err", v |-> None]
                      ELSE [t |-> "Ok", v |-> Some([id |-> parts[1], timeout |-> n])]
                      : n \in {ParseU64(From(parts[2], Len((* timeout= *) <<116, 105, 109, 101, 111, 117, 116, 61>>) + 1))} })
     : parts \in {Split(header[1], 59)} })
    : header \in {HeadersGet(h, SESSION)} })

\* Session::from_headers: the id is the text before the first ';', the
\* timeout comes from the first later piece that starts with "timeout="
SessionFromHeaders(h) ==
    The({ IF header = None THEN [t |-> "Ok", v |-> None] ELSE
     The({
      The({ IF T = {} THEN [t |-> "Ok", v |-> Some([id |-> parts[1], timeout |-> None])]
            ELSE The({ IF n = None THEN [t |-> "Err", v |-> None]
                       ELSE [t |-> "Ok", v |-> Some([id |-> parts[1], timeout |-> n])]
                       : n \in {ParseU64(From(parts[MinOf(T)], Len((* timeout= *) <<116, 105, 109, 101, 111, 117, 116, 61>>) + 1))} })
      : T \in {{k \in 2..Len(parts) : StartsWithAt(parts[k], 1, (* timeout= *) <<116, 105, 109, 101, 111, 117, 116, 61>>)}} })
     : parts \in {Split(header[1], 59)} })
    : header \in {HeadersGet(h, SESSION)} })

MaxOtherHeaders == 2

\* names other than Session and Transport, in any case
OtherNames == {<<83>>, (* Sessions *) <<83, 101, 115, 115, 105, 111, 110, 115>>, (* CSeq *) <<67, 83, 101, 113>>, <<84>>, (* Range *) <<82, 97, 110, 103, 101>>}

OtherValues == {<<49>>, (* RTP/AVP *) <<82, 84, 80, 47, 65, 86, 80>>, (* a;timeout=x *) <<97, 59, 116, 105, 109, 101, 111, 117, 116, 61, 120>>}

InitAbsent ==
    /\ pc = "others"
    /\ InitCommon

\* headers.insert(name, value) with a name that is neither Session nor
\* Transport
DoOtherHeader ==
    /\ pc = "others"
    /\ calls < MaxOtherHeaders
    /\ \E n \in OtherNames, v \in OtherValues : got' = HeadersInsert(got, n, v)
    /\ calls' = calls + 1
    /\ UNCHANGED <<pc, builder, msg, prev, wire, cut, res, sent, offset, input>>

\* Session::from_headers(&headers)
DoSessionFromHeaders ==
    /\ pc = "others"
    /\ res' = SessionFromHeaders(got)
    /\ input' = <<SESSION>>
    /\ pc' = "typed-read"
    /\ UNCHANGED <<builder, calls, msg, prev, wire, cut, sent, got, offset>>

\* Transports::from_headers(&headers)
DoTransportsFromHeaders ==
    /\ pc = "others"
    /\ res' = TransportsFromHeaders(got)
    /\ input' = <<TRANSPORT>>
    /\ pc' = "typed-read"
    /\ UNCHANGED <<builder, calls, msg, prev, wire, cut, sent, got, offset>>

NextAbsent ==
    \/ DoOtherHeader
    \/ DoSessionFromHeaders
    \/ DoTransportsFromHeaders

SpecAbsent == InitAbsent /\ [][NextAbsent]_vars

\* C20: on a map that holds no entry whose name equals the typed header's
\* name, case ignored, from_headers returns Ok(None), whatever other headers
\* the map holds.
C20_AbsentIsNone ==
    (pc = "typed-read" /\ EntriesUnder(got, input[1]) = 0)
        => res = [t |-> "Ok", v |-> None]

(***************************************************************************)
(* Address lists of the Transport header (headers/transport.rs): a caller  *)
(* writes dest_addr or src_addr as quoted strings separated by '/' and     *)
(* reads the header back typed.                                            *)
(***************************************************************************)
MaxAddrs == 2

\* quoted strings as written (raw) and the address each one stands for
AddrSegments ==
    {[raw |-> <<34, 97, 34>>, text |-> <<97>>],
     [raw |-> <<34, 97, 92, 34, 98, 34>>, text |-> <<97, 34, 98>>],
     [raw |-> <<34, 98, 92, 92, 34>>, text |-> <<98, 92>>],
     [raw |-> <<34, 99, 47, 100, 34>>, text |-> <<99, 47, 100>>]}

\* '/' with optional spaces on either side
AddrSeparators == {<<47>>, <<32, 47>>, <<47, 32>>, <<32, 47, 32>>}

AddrNames == {(* dest_addr *) <<100, 101, 115, 116, 95, 97, 100, 100, 114>>, (* src_addr *) <<115, 114, 99, 95, 97, 100, 100, 114>>}

InitAddr ==
    /\ pc = "addr"
    /\ InitCommon

\* the value begins with an RTP spec and the first address of the list
DoAddrFirst ==
    /\ pc = "addr"
    /\ \E n \in AddrNames, s \in AddrSegments :
        /\ wire' = (* RTP/AVP; *) <<82, 84, 80, 47, 65, 86, 80, 59>> \o n \o <<61>> \o s.raw
        /\ input' = <<n>>
        /\ sent' = <<s.text>>
    /\ pc' = "addr-list"
    /\ UNCHANGED <<builder, calls, msg, prev, cut, res, got, offset>>

\* one more address after a separator
DoAddrNext ==
    /\ pc = "addr-list"
    /\ Len(sent) < MaxAddrs
    /\ \E p \in AddrSeparators, s \in AddrSegments :
        /\ wire' = wire \o p \o s.raw
        /\ sent' = Append(sent, s.text)
    /\ UNCHANGED <<pc, builder, calls, msg, prev, cut, res, got, offset, input>>

\* headers.insert(TRANSPORT, value); Transports::from_headers(&headers)
DoAddrFromHeaders ==
    /\ pc = "addr-list"
    /\ res' = TransportsFromHeaders(HeadersInsert(HeadersNew, TRANSPORT, wire))
    /\ pc' = "addr-read"
    /\ UNCHANGED <<builder, calls, msg, prev, wire, cut, sent, got, offset, input>>

NextAddr ==
    \/ DoAddrFirst
    \/ DoAddrNext
    \/ DoAddrFromHeaders

SpecAddr == InitAddr /\ [][NextAddr]_vars

\* the address list the typed header holds under the parameter that was
\* written
AddrsRead ==
    IF input[1] = (* src_addr *) <<115, 114, 99, 95, 97, 100, 100, 114>> THEN res.v[1][1].params.src_addr
    ELSE res.v[1][1].params.dest_addr

\* C21: a dest_addr or src_addr parameter made of k >= 1 quoted strings
\* separated by '/', with optional spaces on either side of each '/', parses
\* to the list of the k addresses in the same order, each with its quotes
\* removed and every backslash escape replaced by the escaped character.
C21_AddressList ==
    pc = "addr-read" =>
        /\ res.t = "Ok"
        /\ res.v # None
        /\ Len(res.v[1]) = 1
        /\ res.v[1][1].kind = "Rtp"
        /\ AddrsRead = sent

(***************************************************************************)
(* Writing a Transports value into a header map and reading it back        *)
(* (headers/transport.rs, TypedHeader for Transports).                     *)
(***************************************************************************)

\* the pieces of a list with sep between them
RECURSIVE JoinWith(_, _)
JoinWith(list, sep) ==
    IF list = <<>> THEN <<>>
    ELSE IF Len(list) = 1 THEN list[1]
    ELSE list[1] \o sep \o JoinWith(Tail(list), sep)

\* write!("{:08X}", ssrc) on a number kept as its hexadecimal digits
FormatHex08(d) == [k \in 1..(8 - Len(d)) |-> 48] \o UpperStr(d)

\* write!("{}", start) and, with an end, write!("-{}", end)
WriteRange(r) ==
    DecimalBytes(r[1]) \o (IF r[2] = None THEN <<>> ELSE <<45>> \o DecimalBytes(r[2][1]))

\* ";name=value" or ";name" for each entry of a parameter map
WriteOthers(m) ==
    JoinWith([k \in 1..Len(m) |->
                <<59>> \o m[k].name
                  \o (IF m[k].value = None THEN <<>> ELSE <<61>> \o m[k].value[1])], <<>>)

\* insert_into, the Transport::Rtp arm
WriteRtpTransport(rtp) ==
    (* RTP/ *) <<82, 84, 80, 47>> \o rtp.profile
    \o (IF rtp.lower_transport = None THEN <<>> ELSE <<47>> \o rtp.lower_transport[1])
    \o (IF rtp.params.unicast THEN (* ;unicast *) <<59, 117, 110, 105, 99, 97, 115, 116>> ELSE <<>>)
    \o (IF rtp.params.multicast THEN (* ;multicast *) <<59, 109, 117, 108, 116, 105, 99, 97, 115, 116>> ELSE <<>>)
    \o (IF rtp.params.interleaved = None THEN <<>>
        ELSE (* ;interleaved= *) <<59, 105, 110, 116, 101, 114, 108, 101, 97, 118, 101, 100, 61>> \o WriteRange(rtp.params.interleaved[1]))
    \o (IF rtp.params.ttl = None THEN <<>> ELSE (* ;ttl= *) <<59, 116, 116, 108, 61>> \o DecimalBytes(rtp.params.ttl[1]))
    \o (IF rtp.params.ssrc = <<>> THEN <<>>
        ELSE (* ;ssrc= *) <<59, 115, 115, 114, 99, 61>> \o JoinWith([k \in 1..Len(rtp.params.ssrc) |->
                                        FormatHex08(rtp.params.ssrc[k])], <<47>>))
    \o (IF rtp.params.dest_addr = <<>> THEN <<>>
        ELSE (* ;dest_addr= *) <<59, 100, 101, 115, 116, 95, 97, 100, 100, 114, 61>> \o JoinWith([k \in 1..Len(rtp.params.dest_addr) |->
                                        <<34>> \o rtp.params.dest_addr[k] \o <<34>>], <<47>>))
    \o (IF rtp.params.src_addr = <<>> THEN <<>>
        ELSE (* ;src_addr= *) <<59, 115, 114, 99, 95, 97, 100, 100, 114, 61>> \o JoinWith([k \in 1..Len(rtp.params.src_addr) |->
                                        <<34>> \o rtp.params.src_addr[k] \o <<34>>], <<47>>))
    \o (IF rtp.params.append THEN (* ;append *) <<59, 97, 112, 112, 101, 110, 100>> ELSE <<>>)
    \o (IF rtp.params.port = None THEN <<>>
        ELSE (* ;port= *) <<59, 112, 111, 114, 116, 61>> \o WriteRange(rtp.params.port[1]))
    \o (IF rtp.params.client_port = None THEN <<>>
        ELSE (* ;client_port= *) <<59, 99, 108, 105, 101, 110, 116, 95, 112, 111, 114, 116, 61>> \o WriteRange(rtp.params.client_port[1]))
    \o (IF rtp.params.server_port = None THEN <<>>
        ELSE (* ;server_port= *) <<59, 115, 101, 114, 118, 101, 114, 95, 112, 111, 114, 116, 61>> \o WriteRange(rtp.params.server_port[1]))
    \o (IF rtp.params.destination = None THEN <<>>
        ELSE (* ;destination= *) <<59, 100, 101, 115, 116, 105, 110, 97, 116, 105, 111, 110, 61>> \o rtp.params.destination[1])
    \o (IF rtp.params.source = None THEN <<>> ELSE (* ;source= *) <<59, 115, 111, 117, 114, 99, 101, 61>> \o rtp.params.source[1])
    \o (IF rtp.params.mode = <<>> THEN <<>>
        ELSE (* ;mode= *) <<59, 109, 111, 100, 101, 61>> \o <<34>>
             \o JoinWith([k \in 1..Len(rtp.params.mode) |->
                            TransportModeAsStr(rtp.params.mode[k])], (* ,  *) <<44, 32>>)
             \o <<34>>)
    \o (IF rtp.params.rtcp_mux THEN (* ;RTCP-mux *) <<59, 82, 84, 67, 80, 45, 109, 117, 120>> ELSE <<>>)
    \o WriteOthers(rtp.params.others)

\* insert_into, the Transport::Other arm
WriteOtherTransport(other) == JoinWith(other.spec, <<47>>) \o WriteOthers(other.params)

\* Transports::insert_into: the transports separated by ',' under TRANSPORT
TransportsInsertInto(ts, h) ==
    HeadersInsert(h, TRANSPORT,
        JoinWith([k \in 1..Len(ts) |->
                    IF ts[k].kind = "Rtp" THEN WriteRtpTransport(ts[k])
                    ELSE WriteOtherTransport(ts[k])], <<44>>))

MaxFields == 2

\* the RTP parameters p with one more recognised field set or extended
FieldUpdates(p) ==
    {[p EXCEPT !.unicast = TRUE], [p EXCEPT !.multicast = TRUE],
     [p EXCEPT !.append = TRUE], [p EXCEPT !.rtcp_mux = TRUE],
     [p EXCEPT !.interleaved = Some(<<0, Some(1)>>)],
     [p EXCEPT !.ttl = Some(127)],
     [p EXCEPT !.ssrc = Append(@, <<49, 97>>)],
     [p EXCEPT !.dest_addr = Append(@, (* h:5 *) <<104, 58, 53>>)],
     [p EXCEPT !.src_addr = Append(@, (* h:5 *) <<104, 58, 53>>)],
     [p EXCEPT !.port = Some(<<5000, None>>)],
     [p EXCEPT !.client_port = Some(<<5000, Some(5001)>>)],
     [p EXCEPT !.server_port = Some(<<65534, Some(65535)>>)],
     [p EXCEPT !.destination = Some(<<104>>)],
     [p EXCEPT !.source = Some(<<104>>)],
     [p EXCEPT !.mode = Append(@, [tag |-> "Play"])],
     [p EXCEPT !.mode = Append(@, [tag |-> "Record"])]}

InitRound ==
    /\ pc = "rtp"
    /\ InitCommon

\* Transports::from(vec![Transport::Rtp(RtpTransport { .. })]) with the
\* default parameters
DoNewRtpTransport ==
    /\ pc = "rtp"
    /\ \E l \in {None, Some((* TCP *) <<84, 67, 80>>), Some((* UDP *) <<85, 68, 80>>)} :
        sent' = <<[kind |-> "Rtp", profile |-> (* AVP *) <<65, 86, 80>>, lower_transport |-> l,
                   params |-> RtpTransportParametersDefault]>>
    /\ pc' = "rtp-fields"
    /\ UNCHANGED <<builder, calls, msg, prev, wire, cut, res, got, offset, input>>

\* one recognised field of the parameters is set
DoSetField ==
    /\ pc = "rtp-fields"
    /\ calls < MaxFields
    /\ \E q \in FieldUpdates(sent[1].params) : sent' = <<[sent[1] EXCEPT !.params = q]>>
    /\ calls' = calls + 1
    /\ UNCHANGED <<pc, builder, msg, prev, wire, cut, res, got, offset, input>>

\* transports.insert_into(&mut headers)
DoInsertInto ==
    /\ pc = "rtp-fields"
    /\ input' = TransportsInsertInto(sent, HeadersNew)
    /\ pc' = "rtp-stored"
    /\ UNCHANGED <<builder, calls, msg, prev, wire, cut, res, sent, got, offset>>

\* Transports::from_headers(&headers)
DoRoundFromHeaders ==
    /\ pc = "rtp-stored"
    /\ res' = TransportsFromHeaders(input)
    /\ pc' = "rtp-read"
    /\ UNCHANGED <<builder, calls, msg, prev, wire, cut, sent, got, offset, input>>

NextRound ==
    \/ DoNewRtpTransport
    \/ DoSetField
    \/ DoInsertInto
    \/ DoRoundFromHeaders

SpecRound == InitRound /\ [][NextRound]_vars

\* C22: for every Transports value of RTP transports whose parameters use
\* only recognised fields, a mode list of one or more modes included,
\* insert_into followed by from_headers returns Ok(Some(t)) with t equal to
\* the value written.
C22_TransportsRoundTrip ==
    pc = "rtp-read" => res = [t |-> "Ok", v |-> Some(sent)]

(***************************************************************************)
(* The Range header (headers/range.rs): npt, smpte and clock ranges.       *)
(***************************************************************************)

\* parser_helpers::split_once: the text before the first c and the text
\* after it
SplitOnce(s, c) ==
    The({ IF Len(p) = 1 THEN None ELSE Some(p) : p \in {SplitN2(s, c)} })

\* u32::MAX in decimal
U32MaxDecimal == (* 4294967295 *) <<52, 50, 57, 52, 57, 54, 55, 50, 57, 53>>

\* str::parse::<u32>: a number above u32::MAX is an error.  A number of ten
\* digits is kept as 10^9, no field of this model is that long.
ParseU32(s) ==
    LET d == IF s # <<>> /\ s[1] = 43 THEN Tail(s) ELSE s
        z == StripZeros(d)
        over == \/ Len(z) > Len(U32MaxDecimal)
                \/ /\ Len(z) = Len(U32MaxDecimal)
                   /\ \E k \in 1..Len(z) :
                         /\ z[k] > U32MaxDecimal[k]
                         /\ \A j \in 1..(k - 1) : z[j] = U32MaxDecimal[j]
    IN  IF d = <<>> \/ \E k \in 1..Len(d) : ~IsDigit(d[k]) THEN None
        ELSE IF over THEN None
        ELSE IF Len(z) > 9 THEN Some(1000000000)
        ELSE Some(DigitsValue(d))

\* u32::pow(10, n)
RECURSIVE Pow10(_)
Pow10(n) == IF n = 0 THEN 1 ELSE 10 * Pow10(n - 1)

\* the digits after '.' as nanoseconds: one to nine digits
Nanoseconds(subseconds) ==
    IF Len(subseconds) > 9 \/ Len(subseconds) = 0 THEN None
    ELSE The({ IF n = None THEN None ELSE Some(n[1] * Pow10(9 - Len(subseconds)))
               : n \in {ParseU32(subseconds)} })

\* impl FromStr for NptTime, the arm without ':'
NptSecondsFromStr(s) ==
    The({ IF p = None
          THEN The({ IF n = None THEN None
                     ELSE Some([tag |-> "Seconds", seconds |-> n[1], nanoseconds |-> None])
                     : n \in {ParseU64(s)} })
          ELSE The({ IF n = None \/ ns = None THEN None
                     ELSE Some([tag |-> "Seconds", seconds |-> n[1], nanoseconds |-> ns])
                     : n \in {ParseU64(p[1][1])}, ns \in {Nanoseconds(p[1][2])} })
          : p \in {SplitOnce(s, 46)} })

\* impl FromStr for NptTime, the arm with ':'
NptHmsFromStr(hours, rest) ==
    The({ IF h = None \/ ParseU8(it[1]) = None \/ Len(it) < 2 THEN None
          ELSE The({ IF p = None
                     THEN (IF ParseU8(it[2]) = None THEN None
                           ELSE Some([tag |-> "Hms", hours |-> h[1],
                                      minutes |-> ParseU8(it[1])[1],
                                      seconds |-> ParseU8(it[2])[1], nanoseconds |-> None]))
                     ELSE (IF ParseU8(p[1][1]) = None \/ Nanoseconds(p[1][2]) = None THEN None
                           ELSE Some([tag |-> "Hms", hours |-> h[1],
                                      minutes |-> ParseU8(it[1])[1],
                                      seconds |-> ParseU8(p[1][1])[1],
                                      nanoseconds |-> Nanoseconds(p[1][2])]))
                     : p \in {SplitOnce(it[2], 46)} })
          : h \in {ParseU64(hours)}, it \in {Split(rest, 58)} })

\* impl FromStr for NptTime
NptTimeFromStr(s) ==
    IF s = (* now *) <<110, 111, 119>> THEN Some([tag |-> "Now"])
    ELSE The({ IF p = None THEN NptSecondsFromStr(s) ELSE NptHmsFromStr(p[1][1], p[1][2])
               : p \in {SplitOnce(s, 58)} })

\* the frames field of a SMPTE time: "frames" or "frames.subframes"
SmpteFramesFromStr(frames) ==
    The({ IF p = None
          THEN (IF ParseU8(frames) = None THEN None
                ELSE Some(Some(<<ParseU8(frames)[1], None>>)))
          ELSE IF ParseU8(p[1][1]) = None \/ Len(p[1][2]) \notin {1, 2}
                  \/ ParseU8(p[1][2]) = None THEN None
          ELSE Some(Some(<<ParseU8(p[1][1])[1],
                           Some(ParseU8(p[1][2])[1] * (IF Len(p[1][2]) = 1 THEN 10 ELSE 1))>>))
          : p \in {SplitOnce(frames, 46)} })

\* impl FromStr for SmpteTime
SmpteTimeFromStr(s) ==
    The({ IF Len(p) < 3 \/ ParseU8(p[1]) = None \/ ParseU8(p[2]) = None
             \/ ParseU8(p[3]) = None THEN None
          ELSE IF Len(p) = 3
          THEN Some([hours |-> ParseU8(p[1])[1], minutes |-> ParseU8(p[2])[1],
                     seconds |-> ParseU8(p[3])[1], frames |-> None])
          ELSE IF Len(p) > 4 \/ SmpteFramesFromStr(p[4]) = None THEN None
          ELSE Some([hours |-> ParseU8(p[1])[1], minutes |-> ParseU8(p[2])[1],
                     seconds |-> ParseU8(p[3])[1], frames |-> SmpteFramesFromStr(p[4])[1]])
          : p \in {Split(s, 58)} })

\* impl FromStr for UtcTime
UtcTimeFromStr(s) ==
    The({ IF p = None THEN None
          ELSE IF p[1][2] = <<>> \/ p[1][2][Len(p[1][2])] # 90 THEN None
          ELSE The({ IF date = None THEN None
                     ELSE IF q = None
                     THEN (IF ParseU32(time) = None THEN None
                           ELSE Some([date |-> date[1], time |-> ParseU32(time)[1],
                                      nanoseconds |-> None]))
                     ELSE IF ParseU32(q[1][1]) = None \/ Nanoseconds(q[1][2]) = None THEN None
                     ELSE Some([date |-> date[1], time |-> ParseU32(q[1][1])[1],
                                nanoseconds |-> Nanoseconds(q[1][2])])
                     : date \in {ParseU32(p[1][1])},
                       time \in {SubSeq(p[1][2], 1, Len(p[1][2]) - 1)},
                       q \in {SplitOnce(SubSeq(p[1][2], 1, Len(p[1][2]) - 1), 46)} })
          : p \in {SplitOnce(s, 84)} })

\* the end of the three range parsers: an empty side is absent, a side
\* that does not parse is an error, and match (from, to) picks the variant
RangeMatch(from, to, f, t) ==
    IF (from # <<>> /\ f = None) \/ (to # <<>> /\ t = None) THEN [t |-> "Err", v |-> None]
    ELSE IF from # <<>> /\ to # <<>>
    THEN [t |-> "Ok", v |-> [tag |-> "FromTo", from |-> f[1], to |-> t[1]]]
    ELSE IF to # <<>> THEN [t |-> "Ok", v |-> [tag |-> "To", to |-> t[1]]]
    ELSE IF from # <<>> THEN [t |-> "Ok", v |-> [tag |-> "From", from |-> f[1]]]
    ELSE [t |-> "Err", v |-> None]

\* impl FromStr for NptRange
NptRangeFromStr(s) ==
    IF ~StartsWithAt(s, 1, (* npt *) <<110, 112, 116>>) THEN [t |-> "Err", v |-> None]
    ELSE IF Len(s) = 3 THEN [t |-> "Ok", v |-> [tag |-> "Empty"]]
    ELSE IF s[4] # 61 THEN [t |-> "Err", v |-> None]
    ELSE The({ IF p = None THEN [t |-> "Err", v |-> None]
               ELSE RangeMatch(p[1][1], p[1][2],
                               NptTimeFromStr(p[1][1]), NptTimeFromStr(p[1][2]))
               : p \in {SplitOnce(From(s, 5), 45)} })

\* impl FromStr for SmpteType
SmpteTypeFromStr(s) ==
    IF ~StartsWithAt(s, 1, (* smpte *) <<115, 109, 112, 116, 101>>) THEN None
    ELSE IF s = (* smpte *) <<115, 109, 112, 116, 101>> THEN Some([tag |-> "Smpte"])
    ELSE IF s = (* smpte-30-drop *) <<115, 109, 112, 116, 101, 45, 51, 48, 45, 100, 114, 111, 112>> THEN Some([tag |-> "Smpte30Drop"])
    ELSE IF s = (* smpte-25 *) <<115, 109, 112, 116, 101, 45, 50, 53>> THEN Some([tag |-> "Smpte25"])
    ELSE Some([tag |-> "Other", v |-> s])

\* impl FromStr for SmpteRange: the text after the first '=' must itself
\* begin with '=' (strip_prefix) before it is cut at '-'
SmpteRangeFromStr(s) ==
    The({ IF e = None
          THEN (IF SmpteTypeFromStr(s) = None THEN [t |-> "Err", v |-> None]
                ELSE [t |-> "Ok", v |-> [tag |-> "Empty", ty |-> SmpteTypeFromStr(s)[1]]])
          ELSE IF SmpteTypeFromStr(e[1][1]) = None THEN [t |-> "Err", v |-> None]
          ELSE IF e[1][2] = <<>>
          THEN [t |-> "Ok", v |-> [tag |-> "Empty", ty |-> SmpteTypeFromStr(e[1][1])[1]]]
          ELSE IF e[1][2][1] # 61 THEN [t |-> "Err", v |-> None]
          ELSE The({ IF p = None THEN [t |-> "Err", v |-> None]
                     ELSE The({ IF r.t # "Ok" THEN r
                                ELSE [t |-> "Ok",
                                      v |-> [ty |-> SmpteTypeFromStr(e[1][1])[1]] @@ r.v]
                                : r \in {RangeMatch(p[1][1], p[1][2],
                                                    SmpteTimeFromStr(p[1][1]),
                                                    SmpteTimeFromStr(p[1][2]))} })
                     : p \in {SplitOnce(Tail(e[1][2]), 45)} })
          : e \in {SplitOnce(s, 61)} })

\* impl FromStr for UtcRange
UtcRangeFromStr(s) ==
    IF ~StartsWithAt(s, 1, (* clock *) <<99, 108, 111, 99, 107>>) THEN [t |-> "Err", v |-> None]
    ELSE IF Len(s) = 5 THEN [t |-> "Ok", v |-> [tag |-> "Empty"]]
    ELSE IF s[6] # 61 THEN [t |-> "Err", v |-> None]
    ELSE The({ IF p = None THEN [t |-> "Err", v |-> None]
               ELSE RangeMatch(p[1][1], p[1][2],
                               UtcTimeFromStr(p[1][1]), UtcTimeFromStr(p[1][2]))
               : p \in {SplitOnce(From(s, 7), 45)} })

\* impl FromStr for Range
RangeFromStr(s) ==
    The({ IF r.t # "Ok" THEN r ELSE [t |-> "Ok", v |-> [kind |-> r.kind, range |-> r.v]]
          : r \in {IF StartsWithAt(s, 1, (* npt *) <<110, 112, 116>>) THEN [kind |-> "Npt"] @@ NptRangeFromStr(s)
                   ELSE IF StartsWithAt(s, 1, (* clock *) <<99, 108, 111, 99, 107>>)
                   THEN [kind |-> "Utc"] @@ UtcRangeFromStr(s)
                   ELSE IF StartsWithAt(s, 1, (* smpte *) <<115, 109, 112, 116, 101>>)
                   THEN [kind |-> "Smpte"] @@ SmpteRangeFromStr(s)
                   ELSE [kind |-> "Other", t |-> "Ok", v |-> s]} })

RANGE == (* Range *) <<82, 97, 110, 103, 101>>

\* Range::from_headers
RangeFromHeaders(h) ==
    The({ IF header = None THEN [t |-> "Ok", v |-> None]
          ELSE The({ IF r.t # "Ok" THEN [t |-> "Err", v |-> None]
                     ELSE [t |-> "Ok", v |-> Some(r.v)]
                     : r \in {RangeFromStr(header[1])} })
          : header \in {HeadersGet(h, RANGE)} })

\* range types with the kind and, for smpte, the type each one stands for
RangeTypes ==
    {[raw |-> (* npt *) <<110, 112, 116>>, kind |-> "Npt", ty |-> "None"],
     [raw |-> (* smpte *) <<115, 109, 112, 116, 101>>, kind |-> "Smpte", ty |-> "Smpte"],
     [raw |-> (* smpte-30-drop *) <<115, 109, 112, 116, 101, 45, 51, 48, 45, 100, 114, 111, 112>>, kind |-> "Smpte", ty |-> "Smpte30Drop"],
     [raw |-> (* smpte-25 *) <<115, 109, 112, 116, 101, 45, 50, 53>>, kind |-> "Smpte", ty |-> "Smpte25"],
     [raw |-> (* clock *) <<99, 108, 111, 99, 107>>, kind |-> "Utc", ty |-> "None"]}

\* times as written and the value each one stands for
RangeTimes(kind) ==
    CASE kind = "Npt" ->
            {[raw |-> (* now *) <<110, 111, 119>>, v |-> [tag |-> "Now"]],
             [raw |-> (* 123 *) <<49, 50, 51>>, v |-> [tag |-> "Seconds", seconds |-> 123, nanoseconds |-> None]],
             [raw |-> (* 123.5 *) <<49, 50, 51, 46, 53>>,
              v |-> [tag |-> "Seconds", seconds |-> 123, nanoseconds |-> Some(500000000)]],
             [raw |-> (* 1:17:59.123 *) <<49, 58, 49, 55, 58, 53, 57, 46, 49, 50, 51>>,
              v |-> [tag |-> "Hms", hours |-> 1, minutes |-> 17, seconds |-> 59,
                     nanoseconds |-> Some(123000000)]]}
      [] kind = "Smpte" ->
            {[raw |-> (* 10:07:33 *) <<49, 48, 58, 48, 55, 58, 51, 51>>,
              v |-> [hours |-> 10, minutes |-> 7, seconds |-> 33, frames |-> None]],
             [raw |-> (* 10:07:00:05 *) <<49, 48, 58, 48, 55, 58, 48, 48, 58, 48, 53>>,
              v |-> [hours |-> 10, minutes |-> 7, seconds |-> 0,
                     frames |-> Some(<<5, None>>)]],
             [raw |-> (* 10:07:00:05.1 *) <<49, 48, 58, 48, 55, 58, 48, 48, 58, 48, 53, 46, 49>>,
              v |-> [hours |-> 10, minutes |-> 7, seconds |-> 0,
                     frames |-> Some(<<5, Some(10)>>)]]}
      [] OTHER ->
            {[raw |-> (* 19961108T143720Z *) <<49, 57, 57, 54, 49, 49, 48, 56, 84, 49, 52, 51, 55, 50, 48, 90>>,
              v |-> [date |-> 19961108, time |-> 143720, nanoseconds |-> None]],
             [raw |-> (* 19961108T143720.25Z *) <<49, 57, 57, 54, 49, 49, 48, 56, 84, 49, 52, 51, 55, 50, 48, 46, 50, 53, 90>>,
              v |-> [date |-> 19961108, time |-> 143720, nanoseconds |-> Some(250000000)]]}

InitRange ==
    /\ pc = "range"
    /\ InitCommon

\* the value begins with the range type, '=' and an optional start time
DoRangeFrom ==
    /\ pc = "range"
    /\ \E ty \in RangeTypes :
         \E f \in RangeTimes(ty.kind) \cup {[raw |-> <<>>]} :
            /\ wire' = ty.raw \o <<61>> \o f.raw \o <<45>>
            /\ sent' = <<ty, f>>
    /\ pc' = "range-from"
    /\ UNCHANGED <<builder, calls, msg, prev, cut, res, got, offset, input>>

\* an optional end time follows the '-'
DoRangeTo ==
    /\ pc = "range-from"
    /\ \E t \in RangeTimes(sent[1].kind) \cup {[raw |-> <<>>]} :
            /\ wire' = wire \o t.raw
            /\ sent' = Append(sent, t)
    /\ pc' = "range-to"
    /\ UNCHANGED <<builder, calls, msg, prev, cut, res, got, offset, input>>

\* headers.insert(RANGE, value); Range::from_headers(&headers)
DoRangeFromHeaders ==
    /\ pc = "range-to"
    /\ res' = RangeFromHeaders(HeadersInsert(HeadersNew, RANGE, wire))
    /\ pc' = "range-read"
    /\ UNCHANGED <<builder, calls, msg, prev, wire, cut, sent, got, offset, input>>

NextRange ==
    \/ DoRangeFrom
    \/ DoRangeTo
    \/ DoRangeFromHeaders

SpecRange == InitRange /\ [][NextRange]_vars

\* the variant the claim gives to the range that was written
RangeExpected ==
    IF sent[2].raw # <<>> /\ sent[3].raw # <<>>
    THEN [tag |-> "FromTo", from |-> sent[2].v, to |-> sent[3].v]
    ELSE IF sent[2].raw # <<>> THEN [tag |-> "From", from |-> sent[2].v]
    ELSE [tag |-> "To", to |-> sent[3].v]

\* C23: for each of npt, smpte, smpte-30-drop, smpte-25 and clock,
\* "<type>=<from>-" parses to From, "<type>=-<to>" to To and
\* "<type>=<from>-<to>" to FromTo, and "<type>=-" is rejected with Err.
C23_RangeForms ==
    pc = "range-read" =>
        IF sent[2].raw = <<>> /\ sent[3].raw = <<>> THEN res.t = "Err"
        ELSE /\ res.t = "Ok"
             /\ res.v # None
             /\ res.v[1].kind = sent[1].kind
             /\ res.v[1].range =
                    (IF sent[1].kind = "Smpte"
                     THEN [ty |-> [tag |-> sent[1].ty]] @@ RangeExpected
                     ELSE RangeExpected)

(***************************************************************************)
(* The Session header (headers/session.rs): the id and the parameters      *)
(* after it, read back typed.                                              *)
(***************************************************************************)
MaxSessionParams == 2

SessionIds == {(* 12345678 *) <<49, 50, 51, 52, 53, 54, 55, 56>>, (* wjdl38ek98 *) <<119, 106, 100, 108, 51, 56, 101, 107, 57, 56>>, (* timeout=5 *) <<116, 105, 109, 101, 111, 117, 116, 61, 53>>}

\* parameters as they follow a ';'
SessionParams ==
    {(* timeout=60 *) <<116, 105, 109, 101, 111, 117, 116, 61, 54, 48>>, (* timeout=007 *) <<116, 105, 109, 101, 111, 117, 116, 61, 48, 48, 55>>, (* timeout=+7 *) <<116, 105, 109, 101, 111, 117, 116, 61, 43, 55>>, (* timeout= *) <<116, 105, 109, 101, 111, 117, 116, 61>>, (* timeout=x *) <<116, 105, 109, 101, 111, 117, 116, 61, 120>>,
     (* timeout=-1 *) <<116, 105, 109, 101, 111, 117, 116, 61, 45, 49>>, (* timeout=18446744073709551616 *) <<116, 105, 109, 101, 111, 117, 116, 61, 49, 56, 52, 52, 54, 55, 52, 52, 48, 55, 51, 55, 48, 57, 53, 53, 49, 54, 49, 54>>, (*  timeout=60 *) <<32, 116, 105, 109, 101, 111, 117, 116, 61, 54, 48>>, (* special *) <<115, 112, 101, 99, 105, 97, 108>>,
     (* 393 *) <<51, 57, 51>>}

InitSession ==
    /\ pc = "session"
    /\ InitCommon

\* the value begins with the session id
DoSessionId ==
    /\ pc = "session"
    /\ \E id \in SessionIds : wire' = id /\ input' = <<id>>
    /\ sent' = <<>>
    /\ pc' = "session-params"
    /\ UNCHANGED <<builder, calls, msg, prev, cut, res, got, offset>>

\* one more parameter after a ';'
DoSessionParam ==
    /\ pc = "session-params"
    /\ Len(sent) < MaxSessionParams
    /\ \E p \in SessionParams : wire' = wire \o <<59>> \o p /\ sent' = Append(sent, p)
    /\ UNCHANGED <<pc, builder, calls, msg, prev, cut, res, got, offset, input>>

\* headers.insert(SESSION, value); Session::from_headers(&headers)
DoSessionRead ==
    /\ pc = "session-params"
    /\ res' = SessionFromHeaders(HeadersInsert(HeadersNew, SESSION, wire))
    /\ pc' = "session-read"
    /\ UNCHANGED <<builder, calls, msg, prev, wire, cut, sent, got, offset, input>>

NextSession ==
    \/ DoSessionId
    \/ DoSessionParam
    \/ DoSessionRead

SpecSession == InitSession /\ [][NextSession]_vars

\* the parameters that begin with "timeout="
TimeoutParams == {k \in 1..Len(sent) : StartsWithAt(sent[k], 1, (* timeout= *) <<116, 105, 109, 101, 111, 117, 116, 61>>)}

\* the text after "timeout=" of the first such parameter
TimeoutText == From(sent[MinOf(TimeoutParams)], Len((* timeout= *) <<116, 105, 109, 101, 111, 117, 116, 61>>) + 1)

\* an unsigned integer of 64 bits: digits, with an optional '+' before them,
\* that stand for a number up to u64::MAX
IsU64Text(v) ==
    /\ v # <<>> /\ v[1] # 45
    /\ DecimalInteger(v)
    /\ ~DecimalGreater(IF v[1] = 43 THEN Tail(v) ELSE v, UsizeMaxDecimal)

\* C24: the session id is the text before the first ';'; the timeout comes
\* from the first parameter, in any position, that begins with "timeout=":
\* Some(value) when the rest is an unsigned integer, Err when it is not, and
\* None when no parameter begins with "timeout="; other parameters are
\* ignored.
C24_SessionTimeoutScan ==
    pc = "session-read" =>
        IF TimeoutParams = {}
        THEN res = [t |-> "Ok", v |-> Some([id |-> input[1], timeout |-> None])]
        ELSE IF IsU64Text(TimeoutText)
        THEN res = [t |-> "Ok",
                    v |-> Some([id |-> input[1],
                                timeout |-> Some(DigitsValue(Significant(
                                    IF TimeoutText[1] = 43 THEN Tail(TimeoutText)
                                    ELSE TimeoutText)))])]
        ELSE res.t = "Err"

\* a timeout found behind an unknown parameter
C24_Witness ==
    /\ pc = "session-read"
    /\ Len(sent) = 2
    /\ sent[1] = (* special *) <<115, 112, 101, 99, 105, 97, 108>>
    /\ sent[2] = (* timeout=60 *) <<116, 105, 109, 101, 111, 117, 116, 61, 54, 48>>
    /\ res.t = "Ok"
    /\ res.v[1].timeout = Some(60)

(***************************************************************************)
(* The RTP-Info header (headers/rtp_info.rs): the RTSP 1.0 and RTSP 2.0    *)
(* grammars and the choice between them.                                   *)
(***************************************************************************)
RTP_INFO == (* RTP-Info *) <<82, 84, 80, 45, 73, 110, 102, 111>>

\* v1::parser::param: a name up to '=', the '=', a value up to ';'
v1_param(b, i) ==
    The({
     The({ IF e.t # "Ok" THEN e ELSE
      The({ IF ~Utf8Valid(n.v) \/ ~Utf8Valid(v.v) THEN RErr("Error")
            ELSE ROk(v.pos, [name |-> n.v, value |-> v.v])
      : v \in {TakeWhileComplete(b, e.pos, LAMBDA x : x # 59)} })
     : e \in {TagComplete(b, n.pos, <<61>>)} })
    : n \in {TakeWhileComplete(b, i, LAMBDA x : x # 61)} })

\* the fold of v1::parser::rtp_info: url, seq and rtptime are kept
v1_fold(acc, p) ==
    CASE p.name = (* url *) <<117, 114, 108>> -> [acc EXCEPT !.uri = Some(p.value)]
      [] p.name = (* seq *) <<115, 101, 113>> -> [acc EXCEPT !.seq = Some(p.value)]
      [] p.name = (* rtptime *) <<114, 116, 112, 116, 105, 109, 101>> -> [acc EXCEPT !.rtptime = Some(p.value)]
      [] OTHER -> acc

\* nom_extensions::separated_list1_fold(tag(";"), param, ..) after the
\* first parameter
RECURSIVE v1_params_rest(_, _, _)
v1_params_rest(b, i, acc) ==
    The({ IF s.t # "Ok" THEN ROk(i, acc) ELSE
     The({ IF p.t # "Ok" THEN ROk(i, acc)
           ELSE v1_params_rest(b, p.pos, v1_fold(acc, p.v))
     : p \in {v1_param(b, s.pos)} })
    : s \in {TagComplete(b, i, <<59>>)} })

\* the closure of v1::parser::rtp_info: the url must be there and parse,
\* seq and rtptime must parse when they are there
v1_info(info) ==
    IF info.uri = None THEN RErr("Error")
    ELSE IF UrlParse(info.uri[1]) = None THEN RErr("Error")
    ELSE IF info.seq # None /\ ParseU16(info.seq[1]) = None THEN RErr("Error")
    ELSE IF info.rtptime # None /\ ParseU32(info.rtptime[1]) = None THEN RErr("Error")
    ELSE ROk(0, [uri |-> UrlParse(info.uri[1])[1],
                 seq |-> IF info.seq = None THEN None ELSE ParseU16(info.seq[1]),
                 rtptime |-> IF info.rtptime = None THEN None
                             ELSE ParseU32(info.rtptime[1])])

\* v1::parser::rtp_info on the text between two ','
v1_rtp_info(b) ==
    The({ IF p.t # "Ok" THEN p ELSE
     The({ v1_info(r.v)
     : r \in {v1_params_rest(b, p.pos,
                             v1_fold([uri |-> None, seq |-> None, rtptime |-> None], p.v))} })
    : p \in {v1_param(b, 1)} })

\* map_parser(take_while(|b| b != b','), rtp_info)
v1_element(b, i) ==
    The({
     The({ IF r.t # "Ok" THEN r ELSE ROk(c.pos, r.v)
     : r \in {v1_rtp_info(c.v)} })
    : c \in {TakeWhileComplete(b, i, LAMBDA x : x # 44)} })

RECURSIVE v1_rtp_infos_rest(_, _, _)
v1_rtp_infos_rest(b, i, acc) ==
    The({ IF s.t # "Ok" THEN ROk(i, acc) ELSE
     The({ IF e.t # "Ok" THEN ROk(i, acc)
           ELSE v1_rtp_infos_rest(b, e.pos, Append(acc, e.v))
     : e \in {v1_element(b, s.pos)} })
    : s \in {TagComplete(b, i, <<44>>)} })

\* v1::parser::rtp_infos
v1_rtp_infos(b) ==
    The({ IF e.t # "Ok" THEN e ELSE
     The({ IF r.pos <= Len(b) THEN RErr("Error") ELSE r
     : r \in {v1_rtp_infos_rest(b, e.pos, <<e.v>>)} })
    : e \in {v1_element(b, 1)} })

\* the loop of v2::parser::quoted_string: the place of the closing quote,
\* 0 when a backslash is the last byte
RECURSIVE v2_quoted_scan(_, _)
v2_quoted_scan(b, o) ==
    IF o > Len(b) THEN o
    ELSE IF b[o] = 92 THEN (IF o + 1 <= Len(b) THEN v2_quoted_scan(b, o + 2) ELSE 0)
    ELSE IF b[o] # 34 THEN v2_quoted_scan(b, o + 1)
    ELSE o

\* v2::parser::quoted_string: the text between the quotes; the rest of the
\* input begins at the closing quote
v2_quoted_string(b, i) ==
    IF ~StartsWithAt(b, i, <<34>>) THEN RErr("Error")
    ELSE The({ IF o = 0 \/ o > Len(b) THEN RErr("Incomplete")
               ELSE IF o = i + 1 THEN RErr("Error")
               ELSE ROk(o, SubSeq(b, i + 1, o - 1))
               : o \in {v2_quoted_scan(b, i + 1)} })

\* v2::parser::token
v2_token(b, i) == TakeWhileComplete(b, i, IsTokenChar)

\* v2::parser::param: a token and, after '=', a quoted string or a token
v2_param(b, i) ==
    IF i > Len(b) THEN RErr("Error")
    ELSE The({ IF ~StartsWithAt(b, n.pos, <<61>>) THEN ROk(n.pos, Entry(n.v, None))
               ELSE The({ IF q.t = "Ok"
                          THEN (IF Utf8Valid(q.v) THEN ROk(q.pos, Entry(n.v, Some(q.v)))
                                ELSE RErr("Error"))
                          ELSE IF q.t # "Error" THEN q
                          ELSE The({ ROk(v.pos, Entry(n.v, Some(v.v)))
                                     : v \in {v2_token(b, n.pos + 1)} })
                          : q \in {v2_quoted_string(b, n.pos + 1)} })
               : n \in {v2_token(b, i)} })

\* separated_list1_fold(tag(";"), param, ..) after the first parameter
RECURSIVE v2_params_rest(_, _, _)
v2_params_rest(b, i, acc) ==
    The({ IF s.t # "Ok" THEN ROk(i, acc) ELSE
     The({ IF p.t = "Error" THEN ROk(i, acc)
           ELSE IF p.t # "Ok" THEN p
           ELSE v2_params_rest(b, p.pos, ParamsInsert(acc, p.v.name, p.v.value))
     : p \in {v2_param(b, s.pos)} })
    : s \in {TagComplete(b, i, <<59>>)} })

\* the parameters after "ssrc=XXXXXXXX": none without ':', one or more
\* after it
v2_ssrc_params(b, i) ==
    IF ~StartsWithAt(b, i, <<58>>) THEN ROk(i, <<>>)
    ELSE The({ IF p.t # "Ok" THEN p
               ELSE v2_params_rest(b, p.pos, ParamsInsert(<<>>, p.v.name, p.v.value))
               : p \in {v2_param(b, i + 1)} })

\* BTreeMap::remove_entry(name) for an entry that holds a value
ParamsValue(m, name) ==
    The({ IF S = {} THEN None ELSE m[MinOf(S)].value
          : S \in {{k \in 1..Len(m) : m[k].name = name}} })

ParamsRemove(m, name) == SelectSeq(m, LAMBDA e : e.name # name)

\* the closure of v2::parser::ssrc_info
v2_ssrc(ssrc, params) ==
    The({ IF seq # None /\ ParseU16(seq[1]) = None THEN RErr("Error")
          ELSE IF rtptime # None /\ ParseU32(rtptime[1]) = None THEN RErr("Error")
          ELSE ROk(0, [ssrc |-> ssrc,
                       seq |-> IF seq = None THEN None ELSE ParseU16(seq[1]),
                       rtptime |-> IF rtptime = None THEN None ELSE ParseU32(rtptime[1]),
                       others |-> ParamsRemove(ParamsRemove(params, (* seq *) <<115, 101, 113>>), (* rtptime *) <<114, 116, 112, 116, 105, 109, 101>>)])
          : seq \in {ParamsValue(params, (* seq *) <<115, 101, 113>>)},
            rtptime \in {ParamsValue(params, (* rtptime *) <<114, 116, 112, 116, 105, 109, 101>>)} })

\* v2::parser::ssrc_info
v2_ssrc_info(b, i) ==
    IF ~StartsWithAt(b, i, (* ssrc= *) <<115, 115, 114, 99, 61>>) THEN RErr("Error")
    ELSE IF Len(b) - (i + 5) + 1 < 8 THEN RErr("Error")
    ELSE The({ IF ~Utf8Valid(SubSeq(b, i + 5, i + 12)) \/ n = None THEN RErr("Error")
               ELSE The({ IF p.t # "Ok" THEN p
                          ELSE The({ IF r.t # "Ok" THEN r ELSE ROk(p.pos, r.v)
                                     : r \in {v2_ssrc(n[1], p.v)} })
                          : p \in {v2_ssrc_params(b, i + 13)} })
               : n \in {ParseHexU32(SubSeq(b, i + 5, i + 12))} })

\* separated_list1(tag(" "), ssrc_info) after the first element
RECURSIVE v2_ssrc_infos_rest(_, _, _)
v2_ssrc_infos_rest(b, i, acc) ==
    The({ IF s.t # "Ok" THEN ROk(i, acc) ELSE
     The({ IF e.t = "Error" THEN ROk(i, acc)
           ELSE IF e.t # "Ok" THEN e
           ELSE v2_ssrc_infos_rest(b, e.pos, Append(acc, e.v))
     : e \in {v2_ssrc_info(b, s.pos)} })
    : s \in {TagComplete(b, i, <<32>>)} })

\* v2::parser::rtp_info
v2_rtp_info(b, i) ==
    IF ~StartsWithAt(b, i, (* url= *) <<117, 114, 108, 61>> \o <<34>>) THEN RErr("Error")
    ELSE The({ IF ~Utf8Valid(u.v) \/ UrlParse(u.v) = None THEN RErr("Error")
               ELSE IF ~StartsWithAt(b, u.pos, <<34, 32>>) THEN RErr("Error")
               ELSE The({ IF e.t # "Ok" THEN e
                          ELSE The({ IF r.t # "Ok" THEN r
                                     ELSE ROk(r.pos, [uri |-> UrlParse(u.v)[1],
                                                      ssrc_infos |-> r.v])
                                     : r \in {v2_ssrc_infos_rest(b, e.pos, <<e.v>>)} })
                          : e \in {v2_ssrc_info(b, u.pos + 2)} })
               : u \in {TakeWhileComplete(b, i + 5, LAMBDA x : x # 34)} })

RECURSIVE v2_rtp_infos_rest(_, _, _)
v2_rtp_infos_rest(b, i, acc) ==
    The({ IF s.t # "Ok" THEN ROk(i, acc) ELSE
     The({ IF e.t = "Error" THEN ROk(i, acc)
           ELSE IF e.t # "Ok" THEN e
           ELSE v2_rtp_infos_rest(b, e.pos, Append(acc, e.v))
     : e \in {v2_rtp_info(b, s.pos)} })
    : s \in {TagComplete(b, i, <<44>>)} })

\* v2::parser::rtp_infos
v2_rtp_infos(b) ==
    The({ IF e.t # "Ok" THEN e ELSE
     The({ IF r.t # "Ok" THEN r
           ELSE IF r.pos <= Len(b) THEN RErr("Error")
           ELSE r
     : r \in {v2_rtp_infos_rest(b, e.pos, <<e.v>>)} })
    : e \in {v2_rtp_info(b, 1)} })

\* parser::rtp_infos: RTSP 2.0 when the input starts with url=", RTSP 1.0
\* otherwise
rtp_infos(b) ==
    IF StartsWithAt(b, 1, (* url= *) <<117, 114, 108, 61>> \o <<34>>)
    THEN The({ IF r.t # "Ok" THEN r ELSE ROk(r.pos, [kind |-> "V2", infos |-> r.v])
               : r \in {v2_rtp_infos(b)} })
    ELSE The({ IF r.t # "Ok" THEN r ELSE ROk(r.pos, [kind |-> "V1", infos |-> r.v])
               : r \in {v1_rtp_infos(b)} })

\* RtpInfos::from_headers
RtpInfosFromHeaders(h) ==
    The({ IF header = None THEN [t |-> "Ok", v |-> None]
          ELSE The({ IF r.t # "Ok" THEN [t |-> "Err", v |-> None]
                     ELSE [t |-> "Ok", v |-> Some(r.v)]
                     : r \in {rtp_infos(header[1])} })
          : header \in {HeadersGet(h, RTP_INFO)} })

MaxInfoPieces == 3

\* what a value may begin with
InfoStarts ==
    {<<>>, <<32>>, <<9>>, <<32, 32>>}

\* pieces of RTP-Info values of both grammars
InfoPieces ==
    {(* url= *) <<117, 114, 108, 61>> \o <<34>> \o (* rtsp://h/ *) <<114, 116, 115, 112, 58, 47, 47, 104, 47>> \o <<34>>, (* url= *) <<117, 114, 108, 61>> \o <<34>> \o <<97>> \o <<34>>,
     (* url=rtsp://h/ *) <<117, 114, 108, 61, 114, 116, 115, 112, 58, 47, 47, 104, 47>>, (*  ssrc=0000000A *) <<32, 115, 115, 114, 99, 61, 48, 48, 48, 48, 48, 48, 48, 65>>, (* :seq=1 *) <<58, 115, 101, 113, 61, 49>>, (* ;seq=1 *) <<59, 115, 101, 113, 61, 49>>, (* ;rtptime=x *) <<59, 114, 116, 112, 116, 105, 109, 101, 61, 120>>,
     (* ;url=rtsp://h/ *) <<59, 117, 114, 108, 61, 114, 116, 115, 112, 58, 47, 47, 104, 47>>, <<44>>}

InitInfo ==
    /\ pc = "info"
    /\ InitCommon

\* the value begins with optional whitespace
DoInfoStart ==
    /\ pc = "info"
    /\ \E s \in InfoStarts : wire' = s /\ cut' = Len(s)
    /\ pc' = "info-pieces"
    /\ UNCHANGED <<builder, calls, msg, prev, res, sent, got, offset, input>>

\* one more piece of the value
DoInfoPiece ==
    /\ pc = "info-pieces"
    /\ calls < MaxInfoPieces
    /\ \E p \in InfoPieces : wire' = wire \o p
    /\ calls' = calls + 1
    /\ UNCHANGED <<pc, builder, msg, prev, cut, res, sent, got, offset, input>>

\* headers.insert(RTP_INFO, value); RtpInfos::from_headers(&headers)
DoInfoFromHeaders ==
    /\ pc = "info-pieces"
    /\ calls > 0
    /\ res' = RtpInfosFromHeaders(HeadersInsert(HeadersNew, RTP_INFO, wire))
    /\ pc' = "info-read"
    /\ UNCHANGED <<builder, calls, msg, prev, wire, cut, sent, got, offset, input>>

NextInfo ==
    \/ DoInfoStart
    \/ DoInfoPiece
    \/ DoInfoFromHeaders

SpecInfo == InitInfo /\ [][NextInfo]_vars

\* the value after its leading whitespace
InfoText == From(wire, cut + 1)

\* the value, after its leading whitespace, begins with url= and a quote
BeginsV2 == StartsWithAt(InfoText, 1, (* url= *) <<117, 114, 108, 61>> \o <<34>>)

\* C25: from_headers reads the value by the RTSP 2.0 grammar exactly when
\* the value, after optional leading whitespace, begins with url= followed
\* by a double quote, and by the RTSP 1.0 grammar otherwise; the chosen
\* grammar alone decides between Ok and Err.
C25_GrammarChoice ==
    pc = "info-read" =>
        IF BeginsV2
        THEN /\ res.t = "Ok" <=> v2_rtp_infos(wire).t = "Ok"
             /\ res.t = "Ok" => res.v[1].kind = "V2"
        ELSE /\ res.t = "Ok" <=> v1_rtp_infos(wire).t = "Ok"
             /\ res.t = "Ok" => res.v[1].kind = "V1"

(***************************************************************************)
(* Media types in the Content-Type and Accept headers (headers/accept.rs,  *)
(* headers/content_type.rs).                                               *)
(***************************************************************************)
ACCEPT == (* Accept *) <<65, 99, 99, 101, 112, 116>>

CONTENT_TYPE == (* Content-Type *) <<67, 111, 110, 116, 101, 110, 116, 45, 84, 121, 112, 101>>

\* MediaType::as_str
MediaTypeAsStr(m) ==
    CASE m.tag = "Text" -> (* text *) <<116, 101, 120, 116>>
      [] m.tag = "Image" -> (* image *) <<105, 109, 97, 103, 101>>
      [] m.tag = "Audio" -> (* audio *) <<97, 117, 100, 105, 111>>
      [] m.tag = "Video" -> (* video *) <<118, 105, 100, 101, 111>>
      [] m.tag = "Application" -> (* application *) <<97, 112, 112, 108, 105, 99, 97, 116, 105, 111, 110>>
      [] m.tag = "Message" -> (* message *) <<109, 101, 115, 115, 97, 103, 101>>
      [] m.tag = "Multipart" -> (* Multipart *) <<77, 117, 108, 116, 105, 112, 97, 114, 116>>
      [] OTHER -> m.v

\* impl FromStr for MediaType
MediaTypeFromStr(s) ==
    CASE s = (* text *) <<116, 101, 120, 116>> -> [tag |-> "Text"]
      [] s = (* image *) <<105, 109, 97, 103, 101>> -> [tag |-> "Image"]
      [] s = (* audio *) <<97, 117, 100, 105, 111>> -> [tag |-> "Audio"]
      [] s = (* video *) <<118, 105, 100, 101, 111>> -> [tag |-> "Video"]
      [] s = (* application *) <<97, 112, 112, 108, 105, 99, 97, 116, 105, 111, 110>> -> [tag |-> "Application"]
      [] s = (* message *) <<109, 101, 115, 115, 97, 103, 101>> -> [tag |-> "Message"]
      [] s = (* multipart *) <<109, 117, 108, 116, 105, 112, 97, 114, 116>> -> [tag |-> "Multipart"]
      [] OTHER -> [tag |-> "Extension", v |-> s]

IsWhitespace(c) == c \in {9, 10, 11, 12, 13, 32}

\* str::trim
Trim(s) ==
    The({ IF S = {} THEN <<>> ELSE SubSeq(s, MinOf(S), CHOOSE k \in S : \A j \in S : j <= k)
          : S \in {{k \in 1..Len(s) : ~IsWhitespace(s[k])}} })

\* ";name=value" or ";name" for each parameter of a media type
WriteMediaParams(params) ==
    JoinWith([k \in 1..Len(params) |->
                <<59>> \o params[k][1]
                  \o (IF params[k][2] = None THEN <<>> ELSE <<61>> \o params[k][2][1])], <<>>)

\* the parameters read from the pieces between ';': each one trimmed and
\* cut at its first '='
ReadMediaParams(pieces) ==
    [k \in 1..Len(pieces) |->
        The({ IF e = None THEN <<Trim(pieces[k]), None>> ELSE <<e[1][1], Some(e[1][2])>>
              : e \in {SplitOnce(Trim(pieces[k]), 61)} })]

\* ContentType::insert_into
ContentTypeInsertInto(ct, h) ==
    HeadersInsert(h, CONTENT_TYPE,
        MediaTypeAsStr(ct.media_type) \o <<47>> \o ct.media_subtype
          \o WriteMediaParams(ct.params))

\* ContentType::from_headers
ContentTypeFromHeaders(h) ==
    The({ IF header = None THEN [t |-> "Ok", v |-> None] ELSE
     The({
      The({ IF m = None THEN [t |-> "Err", v |-> None]
            ELSE [t |-> "Ok",
                  v |-> Some([media_type |-> MediaTypeFromStr(m[1][1]),
                              media_subtype |-> m[1][2],
                              params |-> IF p = None THEN <<>>
                                         ELSE ReadMediaParams(Split(p[1][2], 59))])]
      : m \in {SplitOnce(IF p = None THEN header[1] ELSE p[1][1], 47)} })
     : p \in {SplitOnce(header[1], 59)} })
    : header \in {HeadersGet(h, CONTENT_TYPE)} })

\* Accept::insert_into, one media type range
WriteMediaTypeRange(r) ==
    (IF r.type_ = None THEN <<42>> ELSE MediaTypeAsStr(r.type_[1]))
      \o <<47>> \o (IF r.subtype = None THEN <<42>> ELSE r.subtype[1])
      \o WriteMediaParams(r.params)

\* Accept::insert_into
AcceptInsertInto(ranges, h) ==
    HeadersInsert(h, ACCEPT,
        JoinWith([k \in 1..Len(ranges) |-> WriteMediaTypeRange(ranges[k])], (* ,  *) <<44, 32>>))

\* Accept::from_headers, one piece between ','
ReadMediaTypeRange(piece) ==
    The({
     The({ IF m = None THEN RErr("Err")
           ELSE ROk(0, [type_ |-> IF m[1][1] = <<42>> THEN None
                                  ELSE Some(MediaTypeFromStr(m[1][1])),
                        subtype |-> IF m[1][2] = <<42>> THEN None ELSE Some(m[1][2]),
                        params |-> ReadMediaParams(Tail(it))])
     : m \in {SplitOnce(Trim(it[1]), 47)} })
    : it \in {Split(Trim(piece), 59)} })

RECURSIVE ReadMediaTypeRanges(_, _)
ReadMediaTypeRanges(pieces, acc) ==
    IF pieces = <<>> THEN [t |-> "Ok", v |-> Some(acc)]
    ELSE The({ IF r.t # "Ok" THEN [t |-> "Err", v |-> None]
               ELSE ReadMediaTypeRanges(Tail(pieces), Append(acc, r.v))
               : r \in {ReadMediaTypeRange(Head(pieces))} })

\* Accept::from_headers
AcceptFromHeaders(h) ==
    The({ IF header = None THEN [t |-> "Ok", v |-> None]
          ELSE ReadMediaTypeRanges(Split(header[1], 44), <<>>)
          : header \in {HeadersGet(h, ACCEPT)} })

MaxRanges == 2

\* the seven known media types
KnownMediaTypes ==
    {[tag |-> "Text"], [tag |-> "Image"], [tag |-> "Audio"], [tag |-> "Video"],
     [tag |-> "Application"], [tag |-> "Message"], [tag |-> "Multipart"]}

MediaSubtypes == {(* sdp *) <<115, 100, 112>>, (* plain *) <<112, 108, 97, 105, 110>>}

MediaParams == {<<>>, <<<<(* charset *) <<99, 104, 97, 114, 115, 101, 116>>, Some((* utf-8 *) <<117, 116, 102, 45, 56>>)>>>>, <<<<<<113>>, None>>>>}

InitMedia ==
    /\ pc = "media"
    /\ InitCommon

\* ContentType { media_type, media_subtype, params } of a known media type
DoNewContentType ==
    /\ pc = "media"
    /\ \E m \in KnownMediaTypes, s \in MediaSubtypes, p \in MediaParams :
        sent' = [media_type |-> m, media_subtype |-> s, params |-> p]
    /\ pc' = "content-type"
    /\ UNCHANGED <<builder, calls, msg, prev, wire, cut, res, got, offset, input>>

\* Accept::builder().media_type(range) with a known media type
DoAcceptMediaType ==
    /\ pc \in {"media", "accept"}
    /\ calls < MaxRanges
    /\ \E m \in KnownMediaTypes, s \in {None} \cup {Some(x) : x \in MediaSubtypes} :
        sent' = (IF pc = "media" THEN <<>> ELSE sent)
                    \o <<[type_ |-> Some(m), subtype |-> s, params |-> <<>>]>>
    /\ calls' = calls + 1
    /\ pc' = "accept"
    /\ UNCHANGED <<builder, msg, prev, wire, cut, res, got, offset, input>>

\* content_type.insert_into(&mut headers)
DoContentTypeInsertInto ==
    /\ pc = "content-type"
    /\ input' = ContentTypeInsertInto(sent, HeadersNew)
    /\ pc' = "content-type-stored"
    /\ UNCHANGED <<builder, calls, msg, prev, wire, cut, res, sent, got, offset>>

\* accept.insert_into(&mut headers)
DoAcceptInsertInto ==
    /\ pc = "accept"
    /\ input' = AcceptInsertInto(sent, HeadersNew)
    /\ pc' = "accept-stored"
    /\ UNCHANGED <<builder, calls, msg, prev, wire, cut, res, sent, got, offset>>

\* ContentType::from_headers(&headers)
DoContentTypeFromHeaders ==
    /\ pc = "content-type-stored"
    /\ res' = ContentTypeFromHeaders(input)
    /\ pc' = "content-type-read"
    /\ UNCHANGED <<builder, calls, msg, prev, wire, cut, sent, got, offset, input>>

\* Accept::from_headers(&headers)
DoAcceptFromHeaders ==
    /\ pc = "accept-stored"
    /\ res' = AcceptFromHeaders(input)
    /\ pc' = "accept-read"
    /\ UNCHANGED <<builder, calls, msg, prev, wire, cut, sent, got, offset, input>>

NextMedia ==
    \/ DoNewContentType
    \/ DoAcceptMediaType
    \/ DoContentTypeInsertInto
    \/ DoAcceptInsertInto
    \/ DoContentTypeFromHeaders
    \/ DoAcceptFromHeaders

SpecMedia == InitMedia /\ [][NextMedia]_vars

\* the text before the first '/' of a written media type
WrittenType(text) == SplitN2(Trim(text), 47)[1]

\* C26: for every ContentType and Accept value whose media type is one of
\* the seven known variants, insert_into writes the type in lower case and
\* from_headers reads the same variant back.
C26_KnownMediaTypes ==
    /\ pc = "content-type-read" =>
        /\ WrittenType(input[1].value) = LowerStr(WrittenType(input[1].value))
        /\ res.t = "Ok" /\ res.v # None
        /\ res.v[1].media_type = sent.media_type
    /\ pc = "accept-read" =>
        /\ \A k \in 1..Len(sent) :
              WrittenType(Split(input[1].value, 44)[k])
                  = LowerStr(WrittenType(Split(input[1].value, 44)[k]))
        /\ res.t = "Ok" /\ res.v # None
        /\ Len(res.v[1]) = Len(sent)
        /\ \A k \in 1..Len(sent) : res.v[1][k].type_ = sent[k].type_

(***************************************************************************)
(* The URI position of the request line (serializer.rs, parser.rs): built  *)
(* requests are written and read back, and request lines are read as they  *)
(* come.                                                                   *)
(***************************************************************************)

\* request URIs a caller gives to the builder
BuilderUris == {(* rtsp://h/a *) <<114, 116, 115, 112, 58, 47, 47, 104, 47, 97>>, <<114, 116, 115, 112, 58, 47, 47, 104, 47, 42>>, <<120, 58, 42>>}

\* what stands between the two spaces of a request line
UriFields ==
    {<<42>>, <<42, 42>>, <<42, 97>>, <<97, 42>>, <<120, 58, 42>>, (* rtsp://h/a *) <<114, 116, 115, 112, 58, 47, 47, 104, 47, 97>>, <<114, 116, 115, 112, 58, 47, 47, 104, 47, 42>>, <<47>>, <<>>}

InitUri ==
    /\ pc = "uri"
    /\ InitCommon

\* Request::builder(method, version)
DoUriBuilder ==
    /\ pc = "uri"
    /\ \E m \in Methods, v \in Versions : builder' = RequestBuilderNew(m, v)
    /\ pc' = "uri-builder"
    /\ UNCHANGED <<calls, msg, prev, wire, cut, res, sent, got, offset, input>>

\* builder.request_uri(uri)
DoUriRequestUri ==
    /\ pc = "uri-builder"
    /\ builder.inner.request_uri = None
    /\ \E u \in BuilderUris : builder' = RequestBuilderRequestUri(builder, u)
    /\ UNCHANGED <<pc, calls, msg, prev, wire, cut, res, sent, got, offset, input>>

\* builder.empty()
DoUriEmpty ==
    /\ pc = "uri-builder"
    /\ msg' = RequestBuilderEmpty(builder)
    /\ pc' = "uri-built"
    /\ UNCHANGED <<builder, calls, prev, wire, cut, res, sent, got, offset, input>>

\* message.write(&mut buf)
DoUriWrite ==
    /\ pc = "uri-built"
    /\ wire' = Write(msg)
    /\ pc' = "uri-written"
    /\ UNCHANGED <<builder, calls, msg, prev, cut, res, sent, got, offset, input>>

\* a request without headers arrives
DoUriFeed ==
    /\ pc = "uri"
    /\ \E m \in Methods, u \in UriFields, v \in Versions :
        wire' = MethodStr(m) \o <<32>> \o u \o <<32>> \o VersionStr(v) \o CRLF \o CRLF
    /\ pc' = "uri-fed"
    /\ UNCHANGED <<builder, calls, msg, prev, cut, res, sent, got, offset, input>>

\* Message::parse(&buf)
DoUriParse ==
    /\ pc \in {"uri-written", "uri-fed"}
    /\ res' = MessageParse(wire)
    /\ pc' = "uri-parsed"
    /\ UNCHANGED <<builder, calls, msg, prev, wire, cut, sent, got, offset, input>>

NextUri ==
    \/ DoUriBuilder
    \/ DoUriRequestUri
    \/ DoUriEmpty
    \/ DoUriWrite
    \/ DoUriFeed
    \/ DoUriParse

SpecUri == InitUri /\ [][NextUri]_vars

\* the text between the first and the second space of the first line
UriField ==
    Split(SubSeq(wire, 1, MinOf({k \in 1..Len(wire) : wire[k] = 13}) - 1), 32)[2]

\* C27: a request built without a request URI is written with '*' in the
\* URI position, and a parsed request has request_uri None if and only if
\* the URI position of its start line holds exactly '*'.
C27_StarIsNoUri ==
    /\ (pc = "uri-written" /\ msg.request_uri = None) => UriField = <<42>>
    /\ (pc = "uri-parsed" /\ res.t = "Ok" /\ res.msg.kind = "Request")
            => (res.msg.request_uri = None <=> UriField = <<42>>)

\* a request built without a request URI, written and parsed
C27_Witness ==
    /\ pc = "uri-parsed"
    /\ msg # NoMessage
    /\ msg.request_uri = None
    /\ res.t = "Ok"
    /\ res.msg.request_uri = None

(***************************************************************************)
(* The reason phrase of a built response (message.rs, ResponseBuilder):    *)
(* .reason_phrase(p) may be called any number of times before the builder  *)
(* is closed by empty() or build(body).  sent keeps the phrases passed in  *)
(* call order.                                                             *)
(***************************************************************************)
MaxReasonCalls == 2

ReasonStatuses ==
    {Status("Ok"), Status("NotFound"), Status("InvalidRange"),
     StatusExtension(299), StatusExtension(700)}

\* a phrase, the default phrase of 200, the empty phrase, a phrase with a space
ReasonInputs == {(* Fine *) <<70, 105, 110, 101>>, (* Ok *) <<79, 107>>, <<>>, (* Not Here *) <<78, 111, 116, 32, 72, 101, 114, 101>>}

InitReason ==
    /\ pc = "reason"
    /\ InitCommon

\* Response::builder(version, status)
DoReasonBuilder ==
    /\ pc = "reason"
    /\ \E v \in Versions, s \in ReasonStatuses : builder' = ResponseBuilderNew(v, s)
    /\ pc' = "reason-builder"
    /\ UNCHANGED <<calls, msg, prev, wire, cut, res, sent, got, offset, input>>

\* builder.reason_phrase(p)
DoReasonCall ==
    /\ pc = "reason-builder"
    /\ calls < MaxReasonCalls
    /\ \E p \in ReasonInputs :
        /\ builder' = ResponseBuilderReasonPhrase(builder, p)
        /\ sent' = Append(sent, p)
    /\ calls' = calls + 1
    /\ UNCHANGED <<pc, msg, prev, wire, cut, res, got, offset, input>>

\* builder.empty()
DoReasonEmpty ==
    /\ pc = "reason-builder"
    /\ msg' = ResponseBuilderEmpty(builder)
    /\ pc' = "reason-built"
    /\ res' = [t |-> "empty"]
    /\ UNCHANGED <<builder, calls, prev, wire, cut, sent, got, offset, input>>

\* builder.build(body)
DoReasonBuild ==
    /\ pc = "reason-builder"
    /\ \E body \in Bodies : msg' = ResponseBuilderBuild(builder, body)
    /\ pc' = "reason-built"
    /\ res' = [t |-> "build"]
    /\ UNCHANGED <<builder, calls, prev, wire, cut, sent, got, offset, input>>

NextReason ==
    \/ DoReasonBuilder
    \/ DoReasonCall
    \/ DoReasonEmpty
    \/ DoReasonBuild

SpecReason == InitReason /\ [][NextReason]_vars

\* C28: a response closed by empty() or build(body) has the Display string
\* of its status code as reason phrase when reason_phrase was never called,
\* and otherwise exactly the phrase of the last reason_phrase call.
C28_ReasonPhrase ==
    pc = "reason-built" =>
        /\ res.t \in {"empty", "build"}
        /\ msg.reason_phrase = IF sent = <<>>
                               THEN StatusDisplay(msg.status)
                               ELSE sent[Len(sent)]
        /\ msg.status = builder.inner.status

\* two calls with different phrases, the later one empty, closed by build
\* with a body
C28_Witness ==
    /\ pc = "reason-built"
    /\ res.t = "build"
    /\ msg.body # <<>>
    /\ sent = <<(* Fine *) <<70, 105, 110, 101>>, <<>>>>
    /\ msg.reason_phrase = <<>>

(***************************************************************************)
(* The frame of the map operations, on the calls of SpecHeaders.           *)
(***************************************************************************)
\* the entries of the map h whose name is not case-insensitively equal to
\* the name a
EntriesBeside(h, a) ==
    {h[k] : k \in {j \in 1..Len(h) : ~HeaderNameEq(h[j].name, a)}}

\* C29: insert, append and remove called with the name a leave every entry
\* whose name is not case-insensitively equal to a present with its value
\* (and add no such entry), and get(b) returns None when no stored name is
\* case-insensitively equal to b.
C29_MapCallFrame ==
    (pc = "map" /\ sent # <<>>)
        => LET c == sent[Len(sent)]
           IN  /\ c.op \in {"insert", "append", "remove"}
                    => EntriesBeside(got, c.name) = EntriesBeside(c.before, c.name)
               /\ (c.op = "get" /\ EntriesUnder(c.before, c.name) = 0)
                    => res.value = None

(***************************************************************************)
(* Message::parse and the bytes after the consumed prefix: a buffer is put *)
(* together, parsed, and parsed again with the bytes after the consumed    *)
(* count replaced.  sent holds the second buffer, got the second result.   *)
(***************************************************************************)
MaxTailHeaders == 2

TailHeaderLines ==
    {Entry(CONTENT_LENGTH, <<49>>),
     Entry(CONTENT_LENGTH, <<50>>),
     Entry((* CSeq *) <<67, 83, 101, 113>>, <<49, 13, 10, 32, 50>>),
     Entry((* CSeq *) <<67, 83, 101, 113>>, <<>>),
     Entry((* CSeq *) <<67, 83, 101, 113>>, <<49, 32>>),
     Entry((* CSeq *) <<67, 83, 101, 113>>, <<255>>)}

\* the bytes put after the header section: "a", "ab", " ", "\tb", CRLF " a"
TailBodies == {<<97>>, <<97, 98>>, <<32>>, <<9, 98>>, <<13, 10, 32, 97>>}

\* interleaved data: channel, announced length, bytes at hand
TailData == {<<36, 0, 0, 0>>, <<36, 1, 0, 1, 97>>, <<36, 1, 0, 1, 97, 32>>, <<36, 1, 0, 2, 97>>}

\* the bytes put in place of those after the consumed prefix: nothing, " ",
\* "\t", " x", CRLF, CRLF " x", "a", "$", 0xFF, "A: b" CRLF CRLF
TailExtensions ==
    {<<>>, <<32>>, <<9>>, <<32, 120>>, CRLF, CRLF \o <<32, 120>>, <<97>>, <<36>>, <<255>>,
     (* A: b *) <<65, 58, 32, 98>> \o CRLF \o CRLF}

InitTail ==
    /\ pc = "tail"
    /\ InitCommon

\* a request line or status line begins the buffer
DoTailStartLine ==
    /\ pc = "tail"
    /\ input = <<>>
    /\ \E l \in StartLines :
          /\ wire' = l.bytes
          /\ input' = <<[kind |-> "start", ok |-> l.ok]>>
    /\ UNCHANGED <<pc, builder, calls, msg, prev, cut, res, sent, got, offset>>

\* a header line "name: value CRLF" follows
DoTailHeaderLine ==
    /\ pc = "tail"
    /\ input # <<>>
    /\ input[Len(input)].kind \in {"start", "header"}
    /\ Len(input) <= MaxTailHeaders
    /\ \E h \in TailHeaderLines :
          /\ wire' = wire \o h.name \o (* :  *) <<58, 32>> \o h.value \o CRLF
          /\ input' = Append(input, [kind |-> "header", name |-> h.name, value |-> h.value])
    /\ UNCHANGED <<pc, builder, calls, msg, prev, cut, res, sent, got, offset>>

\* the empty line ends the header section
DoTailEmptyLine ==
    /\ pc = "tail"
    /\ input # <<>>
    /\ input[Len(input)].kind \in {"start", "header"}
    /\ wire' = wire \o CRLF
    /\ input' = Append(input, [kind |-> "empty"])
    /\ UNCHANGED <<pc, builder, calls, msg, prev, cut, res, sent, got, offset>>

\* bytes follow the header section
DoTailBody ==
    /\ pc = "tail"
    /\ input # <<>>
    /\ input[Len(input)].kind = "empty"
    /\ \E t \in TailBodies :
          /\ wire' = wire \o t
          /\ input' = Append(input, [kind |-> "body"])
    /\ UNCHANGED <<pc, builder, calls, msg, prev, cut, res, sent, got, offset>>

\* the buffer holds interleaved data
DoTailData ==
    /\ pc = "tail"
    /\ input = <<>>
    /\ \E d \in TailData, lead \in {<<>>, CRLF} :
          /\ wire' = lead \o d
          /\ input' = <<[kind |-> "data"]>>
    /\ UNCHANGED <<pc, builder, calls, msg, prev, cut, res, sent, got, offset>>

\* Message::parse(&buf)
DoTailParse ==
    /\ pc = "tail"
    /\ res' = MessageParse(wire)
    /\ cut' = Len(wire)
    /\ pc' = "tail-parsed"
    /\ UNCHANGED <<builder, calls, msg, prev, wire, sent, got, offset, input>>

\* Message::parse(&[&buf[..n], x].concat()) after Ok((m, n))
DoTailParseAgain ==
    /\ pc = "tail-parsed"
    /\ res.t = "Ok"
    /\ \E x \in TailExtensions :
          /\ sent' = SubSeq(wire, 1, res.consumed) \o x
          /\ got' = MessageParse(SubSeq(wire, 1, res.consumed) \o x)
    /\ pc' = "tail-parsed-again"
    /\ UNCHANGED <<builder, calls, msg, prev, wire, cut, res, offset, input>>

NextTail ==
    \/ DoTailStartLine
    \/ DoTailHeaderLine
    \/ DoTailEmptyLine
    \/ DoTailBody
    \/ DoTailData
    \/ DoTailParse
    \/ DoTailParseAgain

SpecTail == InitTail /\ [][NextTail]_vars

\* C30: when Message::parse(buf) is Ok((m, n)), Message::parse of the first
\* n bytes of buf followed by any bytes x is Ok((m, n)) as well.
C30_ConsumedPrefixDecides ==
    pc = "tail-parsed-again" => got = res

\* a request with a continuation line in a header value and a body of one
\* byte was parsed with bytes left over, and parsed again with " x" in
\* their place
C30_Witness ==
    /\ pc = "tail-parsed-again"
    /\ res.t = "Ok"
    /\ res.msg.kind = "Request"
    /\ res.msg.body = <<97>>
    /\ res.consumed < Len(wire)
    /\ \E k \in 1..Len(input) : input[k].kind = "header" /\ input[k].value = <<49, 13, 10, 32, 50>>
    /\ sent = SubSeq(wire, 1, res.consumed) \o <<32, 120>>
    /\ got.t = "Ok"

=============================================================================
